---- MODULE Spec2Model ----
(***************************************************************************)
(* BioWeave retrieval pipeline: the Retriever query of                     *)
(* src/app/api/rag+api.ts (ServerRAGQuery.query, behind the POST handler   *)
(* of the Query API) and of src/app/api/rag_query.ts (RAGQuery.query).     *)
(*                                                                         *)
(* Numbers.  Distances and min-score thresholds are fixed-point values in  *)
(* units of 1/Scale (Scale = 10: a distance of 15 is 1.5, a threshold of 3 *)
(* is 0.3).  A score 1/(1+d) is kept as the exact fraction                 *)
(* Scale/(Scale+d) and compared with a threshold by cross-multiplication.  *)
(* Every distance of Dists whose score equals a threshold of AllMinScores  *)
(* (0 with 1.0, 1.0 with 0.5, 4.0 with 0.2) is a dyadic rational, so the   *)
(* IEEE-754 comparison of the code gives the same answer as the exact one. *)
(***************************************************************************)
EXTENDS Integers, Sequences, FiniteSets, TLC

\* ------------------------------------------------------------------ bounds

\* Largest top_k a caller passes explicitly (the defaults are program constants).
MaxTopK == 2

\* ------------------------------------------------------- program constants

\* Fixed-point unit of distances and thresholds: 1/Scale.
Scale == 10

\* `undefined`: an omitted argument, an absent body field, a row without $dist.
Absent == -1

\* null, where an id is expected (the ids are clock values, all positive).
NoId == 0

\* topK = 4 (rag+api.ts:42 and :116, rag_query.ts:58).
DefaultTopK == 4

\* minScore = 0.3 (rag+api.ts:42, the signature of ServerRAGQuery.query).
ServerDefaultMinScore == 3

\* minScore = 0.3 (rag+api.ts:116, the destructuring default of POST).
PostDefaultMinScore == 3

\* minScore = 0.5 (rag_query.ts:59).
RAGQueryDefaultMinScore == 5

\* --------------------------------------------------------------- the inputs

\* Distances the index reports, in units of 1/Scale: 0, 0.1, 1.0, 1.5, 4.0, 5.0
\* (scores 1, 0.909, 0.5, 0.4, 0.2, 0.167).
Dists == {0, 1, 10, 15, 40, 50}

\* Thresholds a caller passes: 0.2, 0.5, 1.0.
MinScores == {2, 5, 10}

\* Every threshold the model compares a score with.
AllMinScores == MinScores \cup {ServerDefaultMinScore, PostDefaultMinScore, RAGQueryDefaultMinScore}

TopKs == 1..MaxTopK

\* The values of body.query: the field is absent, "", a non-empty string, or a
\* truthy value that is no string (a number such as 5).
QueryValues == {"absent", "empty", "text", "number"}

\* JavaScript truthiness of body.query (rag+api.ts:118, `!query`).
Truthy(query) == query \in {"text", "number"}

\* Whether the value is a string, which is what the embeddings endpoint accepts.
IsString(query) == query \in {"empty", "text"}

Impls == {"POST", "ServerRAGQuery", "RAGQuery"}

\* A request: for POST the parsed body (or a body that is no JSON); for a direct
\* call of query() its arguments.
Bodies == [json : {"object"}, query : QueryValues,
           topK : TopKs \cup {Absent}, minScore : MinScores \cup {Absent},
           top_k : TopKs \cup {Absent}, min_score : MinScores \cup {Absent}]

MalformedBody == [json |-> "malformed", query |-> "absent", topK |-> Absent,
                  minScore |-> Absent, top_k |-> Absent, min_score |-> Absent]

CallArgs == [json : {"object"}, query : {"text"},
             topK : TopKs \cup {Absent}, minScore : MinScores \cup {Absent},
             top_k : {Absent}, min_score : {Absent}]

Requests(i) == IF i = "POST" THEN Bodies \cup {MalformedBody} ELSE CallArgs

\* process.env of the server, and of the client for RAGQuery.
Envs(i) == IF i = "POST" THEN [turbopufferApiKey : BOOLEAN, openaiApiKey : BOOLEAN]
           ELSE IF i = "RAGQuery" THEN [turbopufferApiKey : {TRUE}, openaiApiKey : BOOLEAN]
           ELSE [turbopufferApiKey : {TRUE}, openaiApiKey : {TRUE}]

\* ---------------------------------------------------------------- the index

\* Whether the rows that carry a distance are in ascending order of distance
\* (the vector index ranks by distance, nearest first).
Ascending(ds) ==
    \A i, j \in DOMAIN ds :
        (i < j /\ ds[i] # Absent /\ ds[j] # Absent) => ds[i] <= ds[j]

\* What ns.query can resolve to when asked for k rows: a response without a
\* rows field, or at most k rows, nearest first, each with its id (here its rank
\* in the response) and, optionally, its $dist.
IndexResponses(k) ==
    {[hasRows |-> FALSE, rows |-> <<>>]} \cup
    UNION {{[hasRows |-> TRUE, rows |-> [i \in 1..n |-> [id |-> i, dist |-> ds[i]]]] :
               ds \in {f \in [1..n -> Dists \cup {Absent}] : Ascending(f)}} : n \in 0..k}

\* ------------------------------------------------- the retriever's functions

\* `topK = 4` of a signature or a destructuring: the default replaces undefined.
OrDefault(value, default) == IF value = Absent THEN default ELSE value

\* Mutation of DistOrZero: a row without $dist counts as far away.
DistOrZero_AbsentIsFar(dist) == IF dist = Absent THEN Scale * Scale ELSE dist

\* `row.$dist ?? 0` (rag+api.ts:78, rag_query.ts:96).
DistOrZero(dist) == IF dist = Absent THEN 0 ELSE dist

\* Mutation of Score: the 1 of the denominator is dropped (1 / dist).
Score_NoPlusOne(dist) == [num |-> Scale, den |-> DistOrZero(dist)]

\* Mutation of Score: the score is taken to be max(0, 1 - dist).
Score_OneMinusDistance(dist) ==
    [num |-> IF DistOrZero(dist) >= Scale THEN 0 ELSE Scale - DistOrZero(dist),
     den |-> Scale]

\* `1 / (1 + dist)`, as the exact fraction Scale / (Scale + dist).
Score(dist) == [num |-> Scale, den |-> Scale + DistOrZero(dist)]

\* a >= b for two scores (fractions with positive denominators).
ScoreGE(a, b) == a.num * b.den >= b.num * a.den

\* The threshold m/Scale as a fraction.
Threshold(m) == [num |-> m, den |-> Scale]

\* Mutation of Passed: the raw distance (1/score - 1, in units of 1/Scale), not
\* the score, is compared with minScore.
Passed_RawDistance(result, minScore) ==
    result.score.den - result.score.num >= minScore

\* Mutation of Passed: the comparison is reversed (score <= minScore).
Passed_Reversed(result, minScore) == ScoreGE(Threshold(minScore), result.score)

\* `result.score >= minScore` (rag+api.ts:99, rag_query.ts:117).
Passed(result, minScore) == ScoreGE(result.score, Threshold(minScore))

\* The .map callback: one RAGResult per row, its id and its score (the other
\* attributes are copied from the row and decide nothing here).
FormatRow(row) == [id |-> row.id, score |-> Score(row.dist)]

\* Mutation of FormatAndFilter: the .filter step is left out.
FormatAndFilter_NoFilter(rows, minScore) ==
    [i \in DOMAIN rows |-> FormatRow(rows[i])]

\* results.rows.map(...).filter(...) (rag+api.ts:76-102, rag_query.ts:94-120).
FormatAndFilter(rows, minScore) ==
    SelectSeq([i \in DOMAIN rows |-> FormatRow(rows[i])],
              LAMBDA result : Passed(result, minScore))

\* What query() returns for an index response (rag+api.ts:69-105).
QueryResults(resp, minScore) ==
    IF ~resp.hasRows \/ Len(resp.rows) = 0 THEN <<>>
    ELSE FormatAndFilter(resp.rows, minScore)

\* Mutation of IndexTopKParam: the default is sent whatever the caller passed.
IndexTopKParam_AlwaysDefault(k) == DefaultTopK

\* The top_k that query() sends to the index (rag+api.ts:56, rag_query.ts:74).
IndexTopKParam(k) == k

\* Mutation of Rethrow: the catch block throws a new error of its own.
Rethrow_Wrapped(error) == "Error querying RAG system"

\* `throw error` of a catch block: the error caught is the error thrown
\* (rag+api.ts:36-39 and :106-109).
Rethrow(error) == error

\* ------------------------------------------------------------------ state

VARIABLES
    impl,           \* the entry point of this invocation: POST, or a direct call of query()
    env,            \* the credentials of process.env
    request,        \* the request body (POST) or the call's arguments (query())
    pc,             \* "start", "embedding" (awaiting getEmbedding), "querying" (awaiting ns.query), "done"
    topK,           \* the local topK of query(), after its default
    minScore,       \* the local minScore of query(), after its default
    embedCalls,     \* openai.embeddings.create calls issued
    indexCalls,     \* ns.query calls issued
    indexTopK,      \* the top_k sent to the index
    indexResponse,  \* what ns.query resolved to
    backendError,   \* the error a backend (or JSON parsing, or the constructor) raised
    outcome,        \* how query() ended: not entered, pending, returned a list, threw
    response        \* the Response of POST

\* The state of one Retriever invocation.
retrieverVars == <<impl, env, request, pc, topK, minScore, embedCalls, indexCalls,
                   indexTopK, indexResponse, backendError, outcome, response>>

\* Concurrent Query API requests (the second part of this module).
VARIABLES
    cIndex,      \* the contents of the shared index
    cBody,       \* the body of each request
    cPc,         \* where each invocation stands: "start", "embedding", "querying", "done"
    cFrames,     \* the parameters and locals of each activation frame
    cEmbedIn,    \* the input of each invocation's embeddings call
    cIndexIn,    \* the vector and top_k of each invocation's index query
    cResponse,   \* the Response of each request
    cOverlapped  \* history: two invocations have been awaiting a backend at once

concurrentVars == <<cIndex, cBody, cPc, cFrames, cEmbedIn, cIndexIn, cResponse, cOverlapped>>

\* The makeRAGQuery tool call of the chat screen (the third part).
VARIABLES
    tArgs,        \* toolCall.args: { query, topK? }
    tPc,          \* "start", "fetching", "reading" (awaiting response.json()), "done"
    tRequestBody, \* the body of the request sent to the Query API
    tHttp,        \* what fetch resolved to: the status and the body of the response
    tFailure,     \* why the query failed: "none", "network", "http", "parse"
    tActive,      \* activeToolCalls
    tResult       \* what onToolCall returned

toolVars == <<tArgs, tPc, tRequestBody, tHttp, tFailure, tActive, tResult>>

\* The components that present retrieved chunks (the fourth part).
VARIABLES
    dComponent,  \* the component that renders: "RAGResults" or "QueryResult"
    dChunks,     \* the scores of the chunks it is given, in order
    dShown       \* what it shows for each chunk, once rendered

displayVars == <<dComponent, dChunks, dShown>>

\* The Chunker (the fifth part): one call chunk(document_text, max_chars,
\* overlap_chars), a loop over the windows.
VARIABLES
    document_text,  \* the text of the document, a sequence of characters
    max_chars,      \* the chunk size
    overlap_chars,  \* the chunk overlap
    windowStart,    \* the offset at which the next window starts
    chunks,         \* the chunks made so far
    chunkerPc       \* "idle", "chunking" or "done"

chunkerVars == <<document_text, max_chars, overlap_chars, windowStart, chunks, chunkerPc>>

\* The Ingestion Driver (the sixth part): one run of build_index(
\* knowledge_base_dir, max_chars, overlap_chars), a loop over the documents.
VARIABLES
    iReadable,            \* whether the knowledge-base directory can be read
    iDocuments,           \* the documents of the directory, in enumeration order
    iMaxChars,            \* max_chars
    iOverlapChars,        \* overlap_chars
    iNext,                \* the number of documents handled so far
    documents_processed,  \* build report: documents chunked
    skipped,              \* build report: unreadable documents skipped
    chunks_created,       \* build report: chunks made
    index_entries,        \* build report: entries loaded into the index
    iError,               \* the error the run failed with, or "none"
    iPc                   \* "idle", "start", "documents", "succeeded" or "failed"

ingestionVars ==
    <<iReadable, iDocuments, iMaxChars, iOverlapChars, iNext, documents_processed,
      skipped, chunks_created, index_entries, iError, iPc>>

\* The conversation store of the chat screen (the seventh part): the hook
\* useChatStorage, its React state, AsyncStorage, and its calls in progress.
VARIABLES
    conversations,          \* React state: the conversation list, newest first
    currentConversationId,  \* React state: the id of the current conversation, or NoId
    storedConversations,    \* AsyncStorage 'chat_conversations' (<<>> when removed)
    storedCurrentId,        \* AsyncStorage 'current_conversation_id' (NoId when removed)
    now,                    \* Date.now(), the millisecond clock
    calls,                  \* the calls of the hook's functions that are in progress
    callsStarted,           \* how many calls have been started
    writeFailed,            \* history: some AsyncStorage write has been rejected
    savedUnderway,          \* history: what saveCurrentConversation last wrote while
                            \* a create or delete call was in progress
    savesOnly               \* history: only saveCurrentConversation has been called

storageVars ==
    <<conversations, currentConversationId, storedConversations, storedCurrentId, now,
      calls, callsStarted, writeFailed, savedUnderway, savesOnly>>

\* The active tool-call list of the chat screen (the eighth part): the
\* invocations of onToolCall in progress and the list they maintain.
VARIABLES
    activeToolCalls,   \* React state: the list of { toolName, startTime }
    toolNow,           \* Date.now() of the chat screen
    toolCalls,         \* the invocations of onToolCall in progress
    toolCallsStarted   \* how many invocations have started

activeVars == <<activeToolCalls, toolNow, toolCalls, toolCallsStarted>>

\* The chat proxy (the ninth part): one POST request to the chat route
\* (src/app/api/chat+api.ts) and its call of the RAG API.
VARIABLES
    proxyRequest,    \* the body of the request
    proxyPc,         \* "idle", "start", "fetch", "text", "json" or "done"
    prompt,          \* the length of the prompt sent to the RAG API
    ragCalls,        \* how many times the RAG API has been called
    ragRequest,      \* the body of the call: query length and top_k
    ragResponse,     \* what the RAG API answered
    proxyResponse    \* the Response the handler returns

proxyVars ==
    <<proxyRequest, proxyPc, prompt, ragCalls, ragRequest, ragResponse, proxyResponse>>

vars == <<retrieverVars, concurrentVars, toolVars, displayVars, chunkerVars, ingestionVars, storageVars, activeVars, proxyVars>>

\* What a step of one part of the system leaves alone: the state of the others.
notRetriever == <<concurrentVars, toolVars, displayVars, chunkerVars, ingestionVars, storageVars, activeVars, proxyVars>>

notConcurrent == <<retrieverVars, toolVars, displayVars, chunkerVars, ingestionVars, storageVars, activeVars, proxyVars>>

notTool == <<retrieverVars, concurrentVars, displayVars, chunkerVars, ingestionVars, storageVars, activeVars, proxyVars>>

notDisplay == <<retrieverVars, concurrentVars, toolVars, chunkerVars, ingestionVars, storageVars, activeVars, proxyVars>>

notChunker == <<retrieverVars, concurrentVars, toolVars, displayVars, ingestionVars, storageVars, activeVars, proxyVars>>

notIngestion == <<retrieverVars, concurrentVars, toolVars, displayVars, chunkerVars, storageVars, activeVars, proxyVars>>

notStorage == <<retrieverVars, concurrentVars, toolVars, displayVars, chunkerVars, ingestionVars, activeVars, proxyVars>>

notActive == <<retrieverVars, concurrentVars, toolVars, displayVars, chunkerVars, ingestionVars, storageVars, proxyVars>>

notProxy == <<retrieverVars, concurrentVars, toolVars, displayVars, chunkerVars, ingestionVars, storageVars, activeVars>>

NoResponse == [status |-> 0, error |-> "none", query |-> "absent", results |-> <<>>, count |-> 0]

NoIndexResponse == [hasRows |-> FALSE, rows |-> <<>>]

NoOutcome == [kind |-> "none", results |-> <<>>, error |-> "none"]

\* No concurrent requests are running.
ConcurrentIdle ==
    /\ cIndex = <<>>
    /\ cBody = <<>>
    /\ cPc = <<>>
    /\ cFrames = <<>>
    /\ cEmbedIn = <<>>
    /\ cIndexIn = <<>>
    /\ cResponse = <<>>
    /\ cOverlapped = FALSE

\* No tool call is running.
ToolIdle ==
    /\ tArgs = <<>>
    /\ tPc = "idle"
    /\ tRequestBody = <<>>
    /\ tHttp = <<>>
    /\ tFailure = "none"
    /\ tActive = <<>>
    /\ tResult = <<>>

\* No document is being chunked.
ChunkerIdle ==
    /\ document_text = <<>>
    /\ max_chars = 1
    /\ overlap_chars = 0
    /\ windowStart = 0
    /\ chunks = <<>>
    /\ chunkerPc = "idle"

\* Nothing is being rendered.
DisplayIdle ==
    /\ dComponent = "none"
    /\ dChunks = <<>>
    /\ dShown = <<>>

\* No ingestion run is in progress.
IngestionIdle ==
    /\ iReadable = TRUE
    /\ iDocuments = <<>>
    /\ iMaxChars = 1
    /\ iOverlapChars = 0
    /\ iNext = 0
    /\ documents_processed = 0
    /\ skipped = 0
    /\ chunks_created = 0
    /\ index_entries = 0
    /\ iError = "none"
    /\ iPc = "idle"

\* The hook is not in use.
StorageIdle ==
    /\ conversations = <<>>
    /\ currentConversationId = NoId
    /\ storedConversations = <<>>
    /\ storedCurrentId = NoId
    /\ now = 0
    /\ calls = <<>>
    /\ callsStarted = 0
    /\ writeFailed = FALSE
    /\ savedUnderway = <<>>
    /\ savesOnly = TRUE

\* No tool call has been made.
ActiveIdle ==
    /\ activeToolCalls = <<>>
    /\ toolNow = 0
    /\ toolCalls = <<>>
    /\ toolCallsStarted = 0

\* No chat request is being handled.
ProxyIdle ==
    /\ proxyRequest = [json |-> "none", messages |-> <<>>]
    /\ proxyPc = "idle"
    /\ prompt = 0
    /\ ragCalls = 0
    /\ ragRequest = [query |-> 0, top_k |-> 0]
    /\ ragResponse = [kind |-> "none", status |-> 0, body |-> "none"]
    /\ proxyResponse = [status |-> 0, error |-> "none", text |-> "none", retrieved_chunks |-> "none"]

\* No Retriever invocation of the first part is running.
RetrieverIdle ==
    /\ impl = "none"
    /\ env = [turbopufferApiKey |-> TRUE, openaiApiKey |-> TRUE]
    /\ request = [json |-> "object", query |-> "absent", topK |-> Absent,
                  minScore |-> Absent, top_k |-> Absent, min_score |-> Absent]
    /\ pc = "idle"
    /\ topK = Absent
    /\ minScore = Absent
    /\ embedCalls = 0
    /\ indexCalls = 0
    /\ indexTopK = Absent
    /\ indexResponse = [hasRows |-> FALSE, rows |-> <<>>]
    /\ backendError = "none"
    /\ outcome = [kind |-> "none", results |-> <<>>, error |-> "none"]
    /\ response = [status |-> 0, error |-> "none", query |-> "absent", results |-> <<>>,
                   count |-> 0]

Init ==
    /\ impl \in Impls
    /\ env \in Envs(impl)
    /\ request \in Requests(impl)
    /\ pc = "start"
    /\ topK = Absent
    /\ minScore = Absent
    /\ embedCalls = 0
    /\ indexCalls = 0
    /\ indexTopK = Absent
    /\ indexResponse = NoIndexResponse
    /\ backendError = "none"
    /\ outcome = NoOutcome
    /\ response = NoResponse
    /\ ConcurrentIdle
    /\ ToolIdle
    /\ DisplayIdle
    /\ ChunkerIdle
    /\ IngestionIdle
    /\ StorageIdle
    /\ ActiveIdle
    /\ ProxyIdle

\* Mutation of Missing: the credential is never checked.
Missing_NeverChecked(key) == FALSE

\* `!turbopufferApiKey`, `!openaiApiKey` (rag+api.ts:126, :130, rag_query.ts:31).
Missing(key) == ~key

\* Response.json({ error }, { status }) (rag+api.ts:119, :127, :131, :148-150).
ErrorResponse(status, error) ==
    [status |-> status, error |-> error, query |-> "absent", results |-> <<>>, count |-> 0]

\* Mutation of OkResponse: an empty result list is answered as 404.
OkResponse_NotFoundWhenEmpty(query, results) ==
    IF results = <<>>
    THEN [status |-> 404, error |-> "No results found", query |-> "absent",
          results |-> <<>>, count |-> 0]
    ELSE [status |-> 200, error |-> "none", query |-> query, results |-> results,
          count |-> Len(results)]

\* Mutation of OkResponse: count is the number of rows asked for, not returned.
OkResponse_CountIsTopK(query, results) ==
    [status |-> 200, error |-> "none", query |-> query, results |-> results,
     count |-> DefaultTopK]

\* Response.json({ query, results, count: results.length }) (rag+api.ts:140-144).
OkResponse(query, results) ==
    [status |-> 200, error |-> "none", query |-> query, results |-> results,
     count |-> Len(results)]

\* The status of the catch block of POST (rag+api.ts:146-151).
CatchStatus == 500

\* query() is entered with its arguments after defaults, and awaits getEmbedding,
\* which issues the one embeddings call (rag+api.ts:42-48, :29-34).
EnterQuery(k, m) ==
    /\ topK' = k
    /\ minScore' = m
    /\ embedCalls' = embedCalls + 1
    /\ outcome' = [kind |-> "pending", results |-> <<>>, error |-> "none"]
    /\ pc' = "embedding"
    /\ UNCHANGED <<impl, env, request, indexCalls, indexTopK, indexResponse,
                   backendError, response>>

\* POST up to its first await of a backend (rag+api.ts:113-138).
POST ==
    /\ pc = "start"
    /\ impl = "POST"
    /\ UNCHANGED notRetriever
    /\ IF request.json = "malformed"
       THEN \* request.json() rejects; the catch block answers
            /\ backendError' = "SyntaxError"
            /\ response' = ErrorResponse(CatchStatus, Rethrow("SyntaxError"))
            /\ pc' = "done"
            /\ UNCHANGED <<impl, env, request, topK, minScore, embedCalls, indexCalls,
                           indexTopK, indexResponse, outcome>>
       ELSE IF ~Truthy(request.query)
       THEN /\ response' = ErrorResponse(400, "Query is required")
            /\ pc' = "done"
            /\ UNCHANGED <<impl, env, request, topK, minScore, embedCalls, indexCalls,
                           indexTopK, indexResponse, backendError, outcome>>
       ELSE IF Missing(env.turbopufferApiKey)
       THEN /\ response' = ErrorResponse(500, "Turbopuffer API key not configured")
            /\ pc' = "done"
            /\ UNCHANGED <<impl, env, request, topK, minScore, embedCalls, indexCalls,
                           indexTopK, indexResponse, backendError, outcome>>
       ELSE IF Missing(env.openaiApiKey)
       THEN /\ response' = ErrorResponse(500, "OpenAI API key not configured")
            /\ pc' = "done"
            /\ UNCHANGED <<impl, env, request, topK, minScore, embedCalls, indexCalls,
                           indexTopK, indexResponse, backendError, outcome>>
       ELSE \* const { query, topK = 4, minScore = 0.3 } = body; rag.query(query, topK, minScore)
            EnterQuery(OrDefault(OrDefault(request.topK, DefaultTopK), DefaultTopK),
                       OrDefault(OrDefault(request.minScore, PostDefaultMinScore),
                                 ServerDefaultMinScore))

\* A direct call ServerRAGQuery.query(queryText, topK = 4, minScore = 0.3)
\* (rag+api.ts:42-48).
ServerRAGQueryQuery ==
    /\ pc = "start"
    /\ impl = "ServerRAGQuery"
    /\ UNCHANGED notRetriever
    /\ EnterQuery(OrDefault(request.topK, DefaultTopK),
                  OrDefault(request.minScore, ServerDefaultMinScore))

\* new RAGQuery(apiKey) followed by query(queryText, options)
\* (rag_query.ts:24-37, :52-66).
RAGQueryQuery ==
    /\ pc = "start"
    /\ impl = "RAGQuery"
    /\ UNCHANGED notRetriever
    /\ IF Missing(env.openaiApiKey)
       THEN \* the constructor throws
            /\ backendError' = "OpenAI API key not configured"
            /\ outcome' = [kind |-> "threw", results |-> <<>>,
                           error |-> "OpenAI API key not configured"]
            /\ pc' = "done"
            /\ UNCHANGED <<impl, env, request, topK, minScore, embedCalls, indexCalls,
                           indexTopK, indexResponse, response>>
       ELSE EnterQuery(OrDefault(request.topK, DefaultTopK),
                       OrDefault(request.minScore, RAGQueryDefaultMinScore))

\* query() throws `error` (the catch blocks of getEmbedding and of query
\* rethrow it); POST answers from its own catch block.
Throw(error) ==
    /\ backendError' = error
    /\ outcome' = [kind |-> "threw", results |-> <<>>, error |-> Rethrow(Rethrow(error))]
    /\ response' = IF impl = "POST"
                   THEN ErrorResponse(CatchStatus, Rethrow(Rethrow(error)))
                   ELSE response
    /\ pc' = "done"

\* The embeddings call resolves; query() goes on to issue the one index query
\* (rag+api.ts:35, :48-64).  The endpoint embeds strings only.
getEmbeddingResolves ==
    /\ pc = "embedding"
    /\ UNCHANGED notRetriever
    /\ IsString(request.query)
    /\ indexCalls' = indexCalls + 1
    /\ indexTopK' = IndexTopKParam(topK)
    /\ pc' = "querying"
    /\ UNCHANGED <<impl, env, request, topK, minScore, embedCalls, indexResponse,
                   backendError, outcome, response>>

\* The embeddings call rejects: the backend failed, or it refused an input that
\* is no string (rag+api.ts:36-39, :106-109).
getEmbeddingRejects ==
    /\ pc = "embedding"
    /\ UNCHANGED notRetriever
    /\ \E error \in IF IsString(request.query)
                    THEN {"EmbeddingBackendError"}
                    ELSE {"EmbeddingBackendError", "InvalidEmbeddingInput"} :
           Throw(error)
    /\ UNCHANGED <<impl, env, request, topK, minScore, embedCalls, indexCalls,
                   indexTopK, indexResponse>>

\* ns.query resolves; query() formats, filters and returns, and POST answers
\* (rag+api.ts:66-105, :138-144).
nsQueryResolves ==
    /\ pc = "querying"
    /\ UNCHANGED notRetriever
    /\ \E resp \in IndexResponses(indexTopK) :
           /\ indexResponse' = resp
           /\ outcome' = [kind |-> "returned", results |-> QueryResults(resp, minScore),
                          error |-> "none"]
           /\ response' = IF impl = "POST"
                          THEN OkResponse(request.query, QueryResults(resp, minScore))
                          ELSE response
    /\ pc' = "done"
    /\ UNCHANGED <<impl, env, request, topK, minScore, embedCalls, indexCalls,
                   indexTopK, backendError>>

\* ns.query rejects (rag+api.ts:106-109).
nsQueryRejects ==
    /\ pc = "querying"
    /\ UNCHANGED notRetriever
    /\ Throw("IndexQueryError")
    /\ UNCHANGED <<impl, env, request, topK, minScore, embedCalls, indexCalls,
                   indexTopK, indexResponse>>

Next ==
    \/ POST
    \/ ServerRAGQueryQuery
    \/ RAGQueryQuery
    \/ getEmbeddingResolves
    \/ getEmbeddingRejects
    \/ nsQueryResolves
    \/ nsQueryRejects

Spec == Init /\ [][Next]_vars

\* ----------------------------------------------------------- claim helpers

\* Whether a is a subsequence of b: the elements of a, in their order, among b's.
RECURSIVE IsSubSeq(_, _)
IsSubSeq(a, b) ==
    IF a = <<>> THEN TRUE
    ELSE IF b = <<>> THEN FALSE
    ELSE IF Head(a) = Head(b) THEN IsSubSeq(Tail(a), Tail(b))
    ELSE IsSubSeq(a, Tail(b))

\* query() has returned its list.
Returned == outcome.kind = "returned"

\* query() has been entered: its defaults are applied and getEmbedding is called.
QueryEntered == embedCalls > 0

\* ns.query has resolved (the invocation is over and no backend raised).
IndexResolved == pc = "done" /\ indexCalls = 1 /\ backendError = "none"

\* The score of an index row as a number: Scale*Scale / (Scale + d) thresholds
\* units, d its distance (0 when it carries none); s < m is Scale*Scale < m*(Scale+d).
RowBelow(row, m) ==
    Scale * Scale < m * (Scale + (IF row.dist = Absent THEN 0 ELSE row.dist))

\* -------------------------------------------------------------------- claims

\* C1: every result a Retriever query returns has score >= min_score, where
\* score = 1/(1+distance) of the index row it was made from.
C1_ScoreAtLeastMinScore ==
    Returned =>
        \A i \in DOMAIN outcome.results :
            LET result == outcome.results[i]
                row == indexResponse.rows[result.id]
            IN  /\ result.score.num * Scale >= minScore * result.score.den
                /\ row.dist # Absent =>
                       result.score.num * (Scale + row.dist) = Scale * result.score.den

\* C1 witness: a query returned some rows and dropped others.
C1_Witness ==
    /\ Returned
    /\ Len(outcome.results) > 0
    /\ Len(outcome.results) < Len(indexResponse.rows)

\* C2 (as stated): the returned list is in descending order of score and is an
\* order-preserving subsequence of the index rows.
C2_DescendingAndStable ==
    Returned =>
        /\ \A i, j \in DOMAIN outcome.results :
               i < j => ScoreGE(outcome.results[i].score, outcome.results[j].score)
        /\ \A i, j \in DOMAIN outcome.results :
               i < j => outcome.results[i].id < outcome.results[j].id

\* C3 (as stated): when the caller omits top_k and min_score, every
\* implementation asks the index for 4 rows and filters with 0.3.
C3_DefaultsAre4And03 ==
    (/\ QueryEntered
     /\ request.topK = Absent /\ request.minScore = Absent
     /\ request.top_k = Absent /\ request.min_score = Absent) =>
        /\ topK = 4
        /\ minScore = 3
        /\ indexCalls > 0 => indexTopK = 4

\* C4 (as stated): a Query API request body carrying top_k and/or min_score is
\* executed with exactly those values.
C4_BodyFieldsHonoured ==
    (impl = "POST" /\ QueryEntered) =>
        /\ request.top_k # Absent =>
               (topK = request.top_k /\ (indexCalls > 0 => indexTopK = request.top_k))
        /\ request.min_score # Absent => minScore = request.min_score

\* The request failed because of what the client sent.
BadInput ==
    \/ request.json = "malformed"
    \/ ~Truthy(request.query)
    \/ backendError = "InvalidEmbeddingInput"

\* The request failed because of a backend or of the server's configuration.
UpstreamFailure ==
    /\ ~BadInput
    /\ \/ backendError \in {"EmbeddingBackendError", "IndexQueryError"}
       \/ ~env.turbopufferApiKey
       \/ ~env.openaiApiKey

\* C5 (as stated): POST answers bad client input with 4xx and a backend or
\* configuration failure with 5xx.
C5_StatusDistinguishesCause ==
    (impl = "POST" /\ pc = "done") =>
        /\ BadInput => response.status \in 400..499
        /\ UpstreamFailure => response.status \in 500..599

\* C6: a Retriever query issues at most one embedding call and one index query;
\* a backend failure makes the query throw that same error and return no list,
\* and no index query follows a failed embedding.
C6_ErrorsPropagateUnchanged ==
    /\ embedCalls <= 1
    /\ indexCalls <= 1
    /\ backendError \in {"EmbeddingBackendError", "InvalidEmbeddingInput", "IndexQueryError"} =>
           /\ outcome.kind = "threw"
           /\ outcome.error = backendError
           /\ outcome.results = <<>>
    /\ backendError \in {"EmbeddingBackendError", "InvalidEmbeddingInput"} => indexCalls = 0

\* C6 witness: the index query failed after a successful embedding.
C6_Witness ==
    /\ pc = "done"
    /\ backendError = "IndexQueryError"
    /\ embedCalls = 1
    /\ indexCalls = 1

\* C7: when the index returns zero rows or no rows field, the Retriever returns
\* the empty list and POST answers 200 with results = [] and count = 0.
C7_EmptyIndexIsSuccess ==
    (IndexResolved /\ (~indexResponse.hasRows \/ Len(indexResponse.rows) = 0)) =>
        /\ outcome.kind = "returned"
        /\ outcome.results = <<>>
        /\ impl = "POST" =>
               /\ response.status = 200
               /\ response.error = "none"
               /\ response.results = <<>>
               /\ response.count = 0

\* C7 witness: POST answered a query whose index response had no rows field.
C7_Witness ==
    /\ IndexResolved
    /\ impl = "POST"
    /\ ~indexResponse.hasRows
    /\ response.status = 200

\* C8: when the index returns rows and all of them score below min_score, the
\* Retriever returns the empty list and POST answers 200 with count = 0.
C8_AllFilteredIsSuccess ==
    (/\ IndexResolved
     /\ Len(indexResponse.rows) > 0
     /\ \A i \in DOMAIN indexResponse.rows : RowBelow(indexResponse.rows[i], minScore)) =>
        /\ outcome.kind = "returned"
        /\ outcome.results = <<>>
        /\ impl = "POST" =>
               /\ response.status = 200
               /\ response.error = "none"
               /\ response.count = 0

\* C8 witness: POST answered a query all of whose two or more rows were filtered out.
C8_Witness ==
    /\ IndexResolved
    /\ impl = "POST"
    /\ Len(indexResponse.rows) >= 2
    /\ \A i \in DOMAIN indexResponse.rows : RowBelow(indexResponse.rows[i], minScore)
    /\ response.count = 0

\* C9: for the rows the index returned, raising min_score never adds a result:
\* for m1 <= m2 the list for m2 is a sub-list of the list for m1.
C9_RaisingMinScoreShrinks ==
    IndexResolved =>
        \A m1, m2 \in AllMinScores :
            m1 <= m2 =>
                /\ IsSubSeq(QueryResults(indexResponse, m2), QueryResults(indexResponse, m1))
                /\ Len(QueryResults(indexResponse, m2)) <= Len(QueryResults(indexResponse, m1))

\* C9 witness: rows for which a higher threshold returns strictly fewer, but
\* some, results.
C9_Witness ==
    /\ IndexResolved
    /\ \E m1, m2 \in AllMinScores :
           /\ m1 < m2
           /\ Len(QueryResults(indexResponse, m2)) > 0
           /\ Len(QueryResults(indexResponse, m2)) < Len(QueryResults(indexResponse, m1))

\* C10: a query with parameter top_k asks the index for top_k rows and returns at
\* most top_k results, each made from one index row and none twice.
C10_AtMostTopK ==
    /\ indexCalls > 0 => indexTopK = topK
    /\ Returned =>
           /\ Len(outcome.results) <= topK
           /\ \A i \in DOMAIN outcome.results :
                  outcome.results[i].id \in DOMAIN indexResponse.rows
           /\ \A i, j \in DOMAIN outcome.results :
                  i # j => outcome.results[i].id # outcome.results[j].id

\* C10 witness: a query with an explicit top_k returned exactly top_k results.
C10_Witness ==
    /\ Returned
    /\ request.topK # Absent
    /\ topK = request.topK
    /\ Len(outcome.results) = topK

\* The distances of the rows of the index response, in order.
RowDists == [i \in DOMAIN indexResponse.rows |-> indexResponse.rows[i].dist]

\* C11: with top_k = 4 and min_score = 0.3, an index holding exactly two
\* entries at distances 0.1 and 5.0 gives scores of about 0.909 and 0.167, and
\* only the first entry is returned (count = 1).
C11_ScenarioB ==
    (IndexResolved /\ topK = 4 /\ minScore = 3 /\ RowDists = <<1, 50>>) =>
        /\ Len(outcome.results) = 1
        /\ outcome.results[1].id = indexResponse.rows[1].id
        \* 0.9085 <= score < 0.9095
        /\ 9085 * outcome.results[1].score.den <= 10000 * outcome.results[1].score.num
        /\ 10000 * outcome.results[1].score.num < 9095 * outcome.results[1].score.den
        \* the entry dropped scores 0.1665 <= score < 0.1675
        /\ 1665 * FormatRow(indexResponse.rows[2]).score.den
               <= 10000 * FormatRow(indexResponse.rows[2]).score.num
        /\ 10000 * FormatRow(indexResponse.rows[2]).score.num
               < 1675 * FormatRow(indexResponse.rows[2]).score.den
        /\ impl = "POST" => (response.status = 200 /\ response.count = 1)

\* C11 witness: POST answered that very query.
C11_Witness ==
    /\ IndexResolved
    /\ impl = "POST"
    /\ topK = 4
    /\ minScore = 3
    /\ RowDists = <<1, 50>>
    /\ response.count = 1

C13_CountAndQueryEcho ==
    (impl = "POST" /\ response.status = 200) =>
        /\ response.count = Len(response.results)
        /\ response.query = request.query
        /\ response.results = outcome.results

\* C13 witness: a successful response with two results out of more rows.
C13_Witness ==
    /\ impl = "POST"
    /\ response.status = 200
    /\ response.count = 2
    /\ Len(indexResponse.rows) > 2

\* A credential the entry point requires is missing.
CredentialMissing ==
    \/ impl = "POST" /\ (~env.turbopufferApiKey \/ ~env.openaiApiKey)
    \/ impl = "RAGQuery" /\ ~env.openaiApiKey

\* C14: with a required credential missing, no embedding call and no index
\* query is ever issued; POST answers with an error (the configuration error
\* when the request itself is valid) and the RAGQuery constructor throws before
\* query() is entered.
C14_MissingCredentialFailsAtOnce ==
    CredentialMissing =>
        /\ embedCalls = 0
        /\ indexCalls = 0
        /\ pc \in {"start", "done"}
        /\ (impl = "POST" /\ pc = "done") =>
               /\ response.status >= 400
               /\ (request.json = "object" /\ Truthy(request.query)) =>
                      /\ response.status = 500
                      /\ response.error \in {"Turbopuffer API key not configured",
                                             "OpenAI API key not configured"}
        /\ (impl = "RAGQuery" /\ pc = "done") =>
               /\ outcome.kind = "threw"
               /\ outcome.error = "OpenAI API key not configured"
               /\ topK = Absent

\* C14 witness: POST answered a valid request with only the embedding key missing.
C14_Witness ==
    /\ impl = "POST"
    /\ pc = "done"
    /\ Truthy(request.query)
    /\ env.turbopufferApiKey
    /\ ~env.openaiApiKey
    /\ response.status = 500

\* ====================================================================
\* Concurrent Query API requests against one shared index
\* (rag+api.ts:113-144: every request runs its own POST invocation, with its
\* own ServerRAGQuery instance and its own parameters and locals).
\* ====================================================================

\* The requests in flight together.
Requesters == {1, 2}

\* The query texts of the concurrent requests.
QueryTexts == {"a", "b"}

\* Distances of an index entry from the query vectors.
EntryDists == {1, 15, 50}

\* The bodies of the concurrent requests: valid ones, with or without topK and minScore.
ConcurrentBodies == [query : QueryTexts, topK : {Absent, 1}, minScore : {Absent, 5}]

\* The contents of the index: two entries, in insertion order, each with its
\* distance from the vector of every query text.
IndexContents == [1..2 -> [QueryTexts -> EntryDists]]

\* openai.embeddings.create for a text: the vector of that text (rag+api.ts:31-35).
Embed(text) == [of |-> text]

\* Entry i ranks before entry j for a vector: nearer, or as near and inserted earlier.
RanksBefore(contents, vector, i, j) ==
    \/ contents[i][vector.of] < contents[j][vector.of]
    \/ contents[i][vector.of] = contents[j][vector.of] /\ i < j

\* ns.query on given contents: the k nearest entries, nearest first, as rows
\* (rag+api.ts:54-64).
IndexQuery(contents, vector, k) ==
    LET n == Len(contents)
        ranked == [p \in 1..n |->
                      CHOOSE i \in 1..n :
                          Cardinality({j \in 1..n : RanksBefore(contents, vector, j, i)}) = p - 1]
        m == IF k < n THEN k ELSE n
    IN  [hasRows |-> TRUE,
         rows |-> [p \in 1..m |-> [id |-> ranked[p], dist |-> contents[ranked[p]][vector.of]]]]

\* Mutation of Frame: the parameters and locals are module-level variables,
\* one copy for every invocation.
Frame_ModuleLevel(r) == 1

\* The activation frame that holds the parameters and locals of invocation r:
\* its own (rag+api.ts:42, :48, :116, :135).
Frame(r) == r

NoFrame == [queryText |-> "none", topK |-> Absent, minScore |-> Absent,
            queryEmbedding |-> [of |-> "none"]]

NoIndexQuery == [vector |-> [of |-> "none"], top_k |-> Absent]

ConcurrentInit ==
    /\ cIndex \in IndexContents
    /\ cBody \in [Requesters -> ConcurrentBodies]
    /\ cPc = [r \in Requesters |-> "start"]
    /\ cFrames = [f \in Requesters |-> NoFrame]
    /\ cEmbedIn = [r \in Requesters |-> "none"]
    /\ cIndexIn = [r \in Requesters |-> NoIndexQuery]
    /\ cResponse = [r \in Requesters |-> NoResponse]
    /\ cOverlapped = FALSE
    /\ RetrieverIdle
    /\ ToolIdle
    /\ DisplayIdle
    /\ ChunkerIdle
    /\ IngestionIdle
    /\ StorageIdle
    /\ ActiveIdle
    /\ ProxyIdle

\* Whether, after this step, two invocations await a backend at once.
Overlap(pcs) ==
    \E r1, r2 \in Requesters :
        /\ r1 # r2
        /\ pcs[r1] \in {"embedding", "querying"}
        /\ pcs[r2] \in {"embedding", "querying"}

\* POST of request r up to await getEmbedding: the body is destructured with
\* its defaults, query() is entered and the embeddings call is issued
\* (rag+api.ts:113-138, :42-48).
ConcurrentPOST(r) ==
    /\ UNCHANGED notConcurrent
    /\ cPc[r] = "start"
    /\ cFrames' = [cFrames EXCEPT ![Frame(r)] =
                      [queryText |-> cBody[r].query,
                       topK |-> OrDefault(OrDefault(cBody[r].topK, DefaultTopK), DefaultTopK),
                       minScore |-> OrDefault(OrDefault(cBody[r].minScore, PostDefaultMinScore),
                                              ServerDefaultMinScore),
                       queryEmbedding |-> [of |-> "none"]]]
    /\ cEmbedIn' = [cEmbedIn EXCEPT ![r] = cFrames'[Frame(r)].queryText]
    /\ cPc' = [cPc EXCEPT ![r] = "embedding"]
    /\ cOverlapped' = (cOverlapped \/ Overlap(cPc'))
    /\ UNCHANGED <<cIndex, cBody, cIndexIn, cResponse>>

\* The embeddings call of r resolves and query() issues its index query
\* (rag+api.ts:35, :48-64).
ConcurrentGetEmbeddingResolves(r) ==
    /\ UNCHANGED notConcurrent
    /\ cPc[r] = "embedding"
    /\ cFrames' = [cFrames EXCEPT ![Frame(r)].queryEmbedding = Embed(cEmbedIn[r])]
    /\ cIndexIn' = [cIndexIn EXCEPT ![r] =
                       [vector |-> cFrames'[Frame(r)].queryEmbedding,
                        top_k |-> IndexTopKParam(cFrames'[Frame(r)].topK)]]
    /\ cPc' = [cPc EXCEPT ![r] = "querying"]
    /\ UNCHANGED <<cIndex, cBody, cEmbedIn, cResponse, cOverlapped>>

\* ns.query of r resolves; query() filters and returns, POST answers
\* (rag+api.ts:66-105, :138-144).
ConcurrentNsQueryResolves(r) ==
    /\ UNCHANGED notConcurrent
    /\ cPc[r] = "querying"
    /\ cResponse' = [cResponse EXCEPT ![r] =
                        OkResponse(cFrames[Frame(r)].queryText,
                                   QueryResults(IndexQuery(cIndex, cIndexIn[r].vector,
                                                           cIndexIn[r].top_k),
                                                cFrames[Frame(r)].minScore))]
    /\ cPc' = [cPc EXCEPT ![r] = "done"]
    /\ UNCHANGED <<cIndex, cBody, cFrames, cEmbedIn, cIndexIn, cOverlapped>>

\* A backend call of r rejects; POST answers from its catch block
\* (rag+api.ts:36-39, :106-109, :146-151).
ConcurrentBackendRejects(r) ==
    /\ UNCHANGED notConcurrent
    /\ cPc[r] \in {"embedding", "querying"}
    /\ cResponse' = [cResponse EXCEPT ![r] =
                        ErrorResponse(CatchStatus,
                                      Rethrow(Rethrow(IF cPc[r] = "embedding"
                                                      THEN "EmbeddingBackendError"
                                                      ELSE "IndexQueryError")))]
    /\ cPc' = [cPc EXCEPT ![r] = "done"]
    /\ UNCHANGED <<cIndex, cBody, cFrames, cEmbedIn, cIndexIn, cOverlapped>>

ConcurrentNext ==
    \E r \in Requesters :
        \/ ConcurrentPOST(r)
        \/ ConcurrentGetEmbeddingResolves(r)
        \/ ConcurrentNsQueryResolves(r)
        \/ ConcurrentBackendRejects(r)

SpecConcurrent == ConcurrentInit /\ [][ConcurrentNext]_vars

\* The response a request gets when it runs alone against given index contents.
Alone(body, contents) ==
    OkResponse(body.query,
               QueryResults(IndexQuery(contents, Embed(body.query),
                                       OrDefault(body.topK, DefaultTopK)),
                            OrDefault(body.minScore, PostDefaultMinScore)))

\* C15: under every interleaving, the response of each request is the one it
\* gets alone (or the error of its own failed backend call): it depends only on
\* its own body and the index contents, and the index query it issued carries
\* its own vector and top_k.
C15_NoInterference ==
    \A r \in Requesters :
        /\ cPc[r] \in {"querying", "done"} /\ cIndexIn[r] # NoIndexQuery =>
               /\ cIndexIn[r].vector = Embed(cBody[r].query)
               /\ cIndexIn[r].top_k = OrDefault(cBody[r].topK, DefaultTopK)
        /\ cPc[r] = "done" =>
               \/ cResponse[r] = Alone(cBody[r], cIndex)
               \/ cResponse[r].status = CatchStatus

\* C15 witness: two requests with different bodies overlapped and both were
\* answered successfully, with different results.
C15_Witness ==
    /\ cOverlapped
    /\ cPc[1] = "done" /\ cPc[2] = "done"
    /\ cResponse[1].status = 200 /\ cResponse[2].status = 200
    /\ cBody[1].query # cBody[2].query
    /\ cBody[1].topK # cBody[2].topK
    /\ cBody[1].minScore # cBody[2].minScore
    /\ cResponse[1].results # cResponse[2].results
    /\ cResponse[1].count > 0 /\ cResponse[2].count > 0

\* ====================================================================
\* The makeRAGQuery tool call of the chat screen
\* (src/app/(tabs)/index.tsx:117-236, onToolCall).
\* ====================================================================

\* toolCall.args of makeRAGQuery.
ToolArgs == [query : QueryTexts, topK : TopKs \cup {Absent}]

\* Result lists a Query API response may carry.
ResponseResults ==
    {<<>>,
     <<FormatRow([id |-> 1, dist |-> 1])>>,
     <<FormatRow([id |-> 1, dist |-> 1]), FormatRow([id |-> 2, dist |-> 15])>>}

\* The payloads of a response body that is JSON: what POST of the Query API
\* sends (rag+api.ts:119-150), and an object with none of these fields.
Payloads ==
    {OkResponse(q, rs) : q \in QueryTexts, rs \in ResponseResults}
    \cup {ErrorResponse(0, e) : e \in {"Query is required", "RAG query failed", ""}}

\* What fetch can resolve to: a status, and a body that is JSON or is not.
HttpResponses ==
    [status : {200, 400, 500, 502}, json : {TRUE}, payload : Payloads]
    \cup [status : {200, 500, 502}, json : {FALSE}, payload : {ErrorResponse(0, "")}]

\* response.ok: a status of 200..299.
Ok(http) == http.status \in 200..299

\* A text built of parts (a template literal); it is empty when all its parts are.
NonEmptyText(parts) == \E i \in DOMAIN parts : parts[i] # ""

\* `a || b` on strings: the first when it is not empty.
OrElse(a, b) == IF a # "" THEN a ELSE b

\* Mutation of RAGErrorResult: the catch block returns the plain empty result.
RAGErrorResult_Swallowed(args, message) ==
    [query |-> args.query, results |-> <<>>, count |-> 0, hasError |-> FALSE, error |-> <<>>]

\* The result of the inner catch block (index.tsx:163-172).
RAGErrorResult(args, message) ==
    [query |-> args.query, results |-> <<>>, count |-> 0, hasError |-> TRUE,
     error |-> <<"RAG query failed: ", message>>]

\* The result of a successful query (index.tsx:158-162): { query: result.query,
\* results: result.results || [], count: result.count || 0 }.
RAGOkResult(payload) ==
    [query |-> payload.query, results |-> payload.results, count |-> payload.count,
     hasError |-> FALSE, error |-> <<>>]

\* The `finally` block: the entry of this call leaves activeToolCalls (index.tsx:231-236).
RemoveActive(active, toolName, startTime) ==
    SelectSeq(active, LAMBDA call : ~(call.toolName = toolName /\ call.startTime = startTime))

ToolInit ==
    /\ tArgs \in ToolArgs
    /\ tPc = "start"
    /\ tRequestBody = <<>>
    /\ tHttp = <<>>
    /\ tFailure = "none"
    /\ tActive = <<>>
    /\ tResult = <<>>
    /\ RetrieverIdle
    /\ ConcurrentIdle
    /\ DisplayIdle
    /\ ChunkerIdle
    /\ IngestionIdle
    /\ StorageIdle
    /\ ActiveIdle
    /\ ProxyIdle

\* onToolCall up to await fetch: the call enters activeToolCalls and the
\* request goes out with topK (default 4) and minScore 0.3 (index.tsx:117-147).
onToolCall ==
    /\ tPc = "start"
    /\ tActive' = Append(tActive, [toolName |-> "makeRAGQuery", startTime |-> 1])
    /\ tRequestBody' = [query |-> tArgs.query, topK |-> OrDefault(tArgs.topK, DefaultTopK),
                        minScore |-> 3]
    /\ tPc' = "fetching"
    /\ UNCHANGED <<tArgs, tHttp, tFailure, tResult>>
    /\ UNCHANGED notTool

\* The call ends with `result`: the finally block runs.
ToolReturn(result) ==
    /\ tResult' = result
    /\ tActive' = RemoveActive(tActive, "makeRAGQuery", 1)
    /\ tPc' = "done"

\* fetch rejects: a network error, caught by the inner catch (index.tsx:163-172).
fetchRejects ==
    /\ tPc = "fetching"
    /\ tFailure' = "network"
    /\ ToolReturn(RAGErrorResult(tArgs, "Network request failed"))
    /\ UNCHANGED <<tArgs, tRequestBody, tHttp>>
    /\ UNCHANGED notTool

\* fetch resolves; the handler awaits response.json(), of the error body when
\* the response is not ok, of the result otherwise (index.tsx:137-153).
fetchResolves ==
    /\ tPc = "fetching"
    /\ \E http \in HttpResponses : tHttp' = http
    /\ tPc' = "reading"
    /\ UNCHANGED <<tArgs, tRequestBody, tFailure, tActive, tResult>>
    /\ UNCHANGED notTool

\* response.json() rejects: the body is no JSON (index.tsx:150, :154, :163-172).
jsonRejects ==
    /\ tPc = "reading"
    /\ ~tHttp.json
    /\ tFailure' = IF Ok(tHttp) THEN "parse" ELSE "http"
    /\ ToolReturn(RAGErrorResult(tArgs, "JSON Parse error"))
    /\ UNCHANGED <<tArgs, tRequestBody, tHttp>>
    /\ UNCHANGED notTool

\* response.json() resolves: a response that is not ok throws
\* errorData.error || `HTTP ${status}`, an ok one is returned (index.tsx:149-162).
jsonResolves ==
    /\ tPc = "reading"
    /\ tHttp.json
    /\ IF ~Ok(tHttp)
       THEN /\ tFailure' = "http"
            /\ ToolReturn(RAGErrorResult(tArgs, OrElse(tHttp.payload.error, "HTTP status")))
       ELSE /\ tFailure' = "none"
            /\ ToolReturn(RAGOkResult(tHttp.payload))
    /\ UNCHANGED <<tArgs, tRequestBody, tHttp>>
    /\ UNCHANGED notTool

ToolNext ==
    \/ onToolCall
    \/ fetchRejects
    \/ fetchResolves
    \/ jsonRejects
    \/ jsonResolves

SpecTool == ToolInit /\ [][ToolNext]_vars

\* C16: a successful query with no results gives results = [] and count = 0
\* with no error field; every failed query (a response that is not ok, a
\* network or a parse error) gives a result with a non-empty error field, never
\* a plain empty success.
C16_FailureIsNotEmptySuccess ==
    tPc = "done" =>
        /\ (tFailure = "none" /\ tHttp.payload.results = <<>>) =>
               /\ tResult.results = <<>>
               /\ tResult.count = 0
               /\ ~tResult.hasError
        /\ tFailure = "none" => ~tResult.hasError
        /\ tFailure # "none" =>
               /\ tResult.hasError
               /\ NonEmptyText(tResult.error)
        /\ (tHttp # <<>> /\ ~Ok(tHttp)) => tFailure = "http"
        /\ (tHttp # <<>> /\ Ok(tHttp) /\ ~tHttp.json) => tFailure = "parse"
        /\ tHttp = <<>> => tFailure = "network"

\* C16 witness: the Query API answered 500 with an error payload and the
\* handler returned a result with an error field.
C16_Witness ==
    /\ tPc = "done"
    /\ tHttp # <<>>
    /\ tHttp.status = 500
    /\ tHttp.json
    /\ tResult.hasError
    /\ tResult.results = <<>>

\* ====================================================================
\* The components that present retrieved chunks
\* (src/components/ui/RAGResults.tsx, src/components/QueryResult.jsx).
\* ====================================================================

\* Most chunks one rendering is given.
MaxChunks == 2

\* The scores of the chunks: the scores the Retriever computes, and two
\* greater values (1.5 and 12).
ChunkScores ==
    {Score(d) : d \in Dists} \cup {[num |-> 15, den |-> 10], [num |-> 120, den |-> 10]}

\* Number.toFixed(digits) of a fraction that is not negative, as an integer
\* count of the last digit shown: the nearest one, the greater of two as near.
ToFixed(x, unitsPerOne) == (2 * x.num * unitsPerOne + x.den) \div (2 * x.den)

\* getScoreColor (RAGResults.tsx:19-23), as a rank: 2 green, 1 yellow, 0 red.
getScoreColor(score) ==
    IF ScoreGE(score, [num |-> 60, den |-> 100]) THEN 2
    ELSE IF ScoreGE(score, [num |-> 45, den |-> 100]) THEN 1
    ELSE 0

\* What RAGResults shows for a result: score.toFixed(2), in the colour of the
\* score (RAGResults.tsx:58-61).
RAGResultsShown(score) ==
    [relevance |-> ToFixed(score, 100), color |-> getScoreColor(score)]

\* Math.max(0, 10 - chunk.score) (QueryResult.jsx:46).
TenMinus(score) ==
    IF 10 * score.den >= score.num
    THEN [num |-> 10 * score.den - score.num, den |-> score.den]
    ELSE [num |-> 0, den |-> score.den]

\* What QueryResult shows for a chunk: Math.max(0, 10 - chunk.score).toFixed(1),
\* out of 10 (QueryResult.jsx:45-55).
QueryResultShown(score) ==
    [relevance |-> ToFixed(TenMinus(score), 10), color |-> 0]

DisplayInit ==
    /\ dComponent \in {"RAGResults", "QueryResult"}
    /\ dChunks \in UNION {[1..n -> ChunkScores] : n \in 1..MaxChunks}
    /\ dShown = <<>>
    /\ RetrieverIdle
    /\ ConcurrentIdle
    /\ ToolIdle
    /\ ChunkerIdle
    /\ IngestionIdle
    /\ StorageIdle
    /\ ActiveIdle
    /\ ProxyIdle

\* RAGResults renders its results (RAGResults.tsx:43-65).
RAGResults ==
    /\ dComponent = "RAGResults"
    /\ dShown = <<>>
    /\ dShown' = [i \in DOMAIN dChunks |-> RAGResultsShown(dChunks[i])]
    /\ UNCHANGED <<dComponent, dChunks>>
    /\ UNCHANGED notDisplay

\* QueryResult renders result.retrieved_chunks (QueryResult.jsx:41-60).
QueryResult ==
    /\ dComponent = "QueryResult"
    /\ dShown = <<>>
    /\ dShown' = [i \in DOMAIN dChunks |-> QueryResultShown(dChunks[i])]
    /\ UNCHANGED <<dComponent, dChunks>>
    /\ UNCHANGED notDisplay

DisplayNext ==
    \/ RAGResults
    \/ QueryResult

SpecDisplay == DisplayInit /\ [][DisplayNext]_vars

\* C17 (as stated): every component treats the score as a similarity, higher
\* meaning better: of two chunks with scores s1 > s2, the relevance shown for
\* the first is never lower than the relevance shown for the second.
C17_HigherScoreNeverShownLower ==
    dShown # <<>> =>
        \A i, j \in DOMAIN dChunks :
            (dChunks[i].num * dChunks[j].den > dChunks[j].num * dChunks[i].den) =>
                /\ dShown[i].relevance >= dShown[j].relevance
                /\ dShown[i].color >= dShown[j].color

\* ====================================================================
\* The Chunker: chunk(document_text, max_chars, overlap_chars), the sliding
\* window of the ingestion pipeline.
\* ====================================================================

\* Longest document of the bounded inputs, and greatest chunk size.
MaxLen == 4

MaxChars == 3

\* The chunk size and the chunk overlap the ingestion pipeline is set to.
ChunkSize == 1000

ChunkOverlap == 200

Characters == {"a", "b"}

Documents == UNION {[1..n -> Characters] : n \in 0..MaxLen}

\* The valid parameters: max_chars > 0 and 0 <= overlap_chars < max_chars.
ChunkParams ==
    {p \in [max_chars : 1..MaxChars, overlap_chars : 0..MaxChars] :
        p.overlap_chars < p.max_chars}

\* The knowledge base of the end-to-end scenario: one document of 2,400
\* characters, chunked with the configured size and overlap.
ScenarioA ==
    [document_text |-> [p \in 1..2400 |-> IF p % 2 = 0 THEN "a" ELSE "b"],
     max_chars |-> ChunkSize,
     overlap_chars |-> ChunkOverlap]

Min(a, b) == IF a <= b THEN a ELSE b

\* The distance between the starts of two consecutive windows.
Stride_IgnoresOverlap(max, overlap) == max

\* The window advanced by the overlap instead.
Stride_IsOverlap(max, overlap) == overlap

Stride(max, overlap) == max - overlap

\* The end of the window that starts at start, clipped to the text length.
WindowEnd_OneLonger(start, max, length) == Min(start + max + 1, length)

WindowEnd(start, max, length) == Min(start + max, length)

\* The characters of text at offsets [from, to).
Slice(text, from, to) == SubSeq(text, from + 1, to)

\* The Chunk a window yields.
Chunk(text, idx, from, to) ==
    [text |-> Slice(text, from, to),
     doc_chunk_idx |-> idx,
     chunk_length |-> to - from]

ChunkerInit ==
    /\ \/ /\ document_text \in Documents
          /\ \E p \in ChunkParams :
                /\ max_chars = p.max_chars
                /\ overlap_chars = p.overlap_chars
       \/ /\ document_text = ScenarioA.document_text
          /\ max_chars = ScenarioA.max_chars
          /\ overlap_chars = ScenarioA.overlap_chars
    /\ windowStart = 0
    /\ chunks = <<>>
    /\ chunkerPc = "chunking"
    /\ RetrieverIdle
    /\ ConcurrentIdle
    /\ ToolIdle
    /\ DisplayIdle
    /\ IngestionIdle
    /\ StorageIdle
    /\ ActiveIdle
    /\ ProxyIdle

\* One window: it starts before the text end and yields one Chunk.
EmitChunk ==
    /\ chunkerPc = "chunking"
    /\ windowStart < Len(document_text)
    /\ chunks' = Append(chunks,
                    Chunk(document_text, Len(chunks), windowStart,
                          WindowEnd(windowStart, max_chars, Len(document_text))))
    /\ windowStart' = windowStart + Stride(max_chars, overlap_chars)
    /\ UNCHANGED <<document_text, max_chars, overlap_chars, chunkerPc>>
    /\ UNCHANGED notChunker

\* The window would start at or past the text end: the chunker stops.
ChunkerStop ==
    /\ chunkerPc = "chunking"
    /\ windowStart >= Len(document_text)
    /\ chunkerPc' = "done"
    /\ UNCHANGED <<document_text, max_chars, overlap_chars, windowStart, chunks>>
    /\ UNCHANGED notChunker

ChunkerNext ==
    \/ EmitChunk
    \/ ChunkerStop

SpecChunker == ChunkerInit /\ [][ChunkerNext]_vars

\* The texts of the chunks from the n-th on, one after the other, each later
\* chunk without its leading overlap (the characters it shares with the chunk
\* before it: overlap_chars of them, or all of a chunk that is shorter).
RECURSIVE Reconstruct(_, _, _)
Reconstruct(cs, n, overlap) ==
    IF n > Len(cs) THEN <<>>
    ELSE LET lead == IF n = 1 THEN 0 ELSE Min(overlap, cs[n].chunk_length)
         IN  Slice(cs[n].text, lead, cs[n].chunk_length) \o Reconstruct(cs, n + 1, overlap)

\* C18: every chunk is at most max_chars long; chunk i has doc_chunk_idx i and
\* is the text from offset i*(max_chars - overlap_chars) on; and the chunks
\* of a document, leading overlaps removed, concatenate to the document.
C18_ChunksCoverTheText ==
    /\ \A n \in DOMAIN chunks :
        LET c == chunks[n]
            from == (n - 1) * (max_chars - overlap_chars)
        IN  /\ c.chunk_length <= max_chars
            /\ c.chunk_length = Len(c.text)
            /\ c.doc_chunk_idx = n - 1
            /\ from + c.chunk_length <= Len(document_text)
            /\ c.text = Slice(document_text, from, from + c.chunk_length)
    /\ chunkerPc = "done" => Reconstruct(chunks, 1, overlap_chars) = document_text

\* Some document has been chunked into several overlapping chunks, the last
\* of them clipped.
C18_Witness ==
    /\ chunkerPc = "done"
    /\ Len(chunks) >= 3
    /\ overlap_chars > 0
    /\ chunks[Len(chunks)].chunk_length < max_chars
    /\ \E i, j \in DOMAIN document_text : document_text[i] # document_text[j]

\* The document of scenario A has been chunked with the configured size and
\* overlap.
ScenarioAChunked ==
    /\ chunkerPc = "done"
    /\ document_text = ScenarioA.document_text
    /\ max_chars = ChunkSize
    /\ overlap_chars = ChunkOverlap

ChunkLengths == [n \in DOMAIN chunks |-> chunks[n].chunk_length]

ChunkIdxs == [n \in DOMAIN chunks |-> chunks[n].doc_chunk_idx]

\* C19 (as stated): the 2,400-character document, with max_chars = 1000 and
\* overlap_chars = 200, gives 3 chunks with doc_chunk_idx 0, 1, 2 and lengths
\* 1000, 1000, 400.
C19_ScenarioA_LastChunk400 ==
    ScenarioAChunked =>
        /\ ChunkIdxs = <<0, 1, 2>>
        /\ ChunkLengths = <<1000, 1000, 400>>

\* C19 (amended): the 2,400-character document, with max_chars = 1000 and
\* overlap_chars = 200, gives 3 chunks with doc_chunk_idx 0, 1, 2 and lengths
\* 1000, 1000, 800 (the windows start at 0, 800 and 1600).
C19_ScenarioA ==
    ScenarioAChunked =>
        /\ ChunkIdxs = <<0, 1, 2>>
        /\ ChunkLengths = <<1000, 1000, 800>>

C19_Witness ==
    /\ ScenarioAChunked
    /\ Len(document_text) = 2400
    /\ Len(chunks) = 3

\* C20 (as stated): an empty document yields no chunk, and a document that is
\* not empty and shorter than max_chars yields exactly one chunk, the whole
\* text.
C20_ShortDocumentIsOneChunk ==
    chunkerPc = "done" =>
        /\ document_text = <<>> => chunks = <<>>
        /\ (document_text # <<>> /\ Len(document_text) < max_chars) =>
              /\ Len(chunks) = 1
              /\ chunks[1].text = document_text

\* The chunker is a loop that runs to its end: while a step of it is possible,
\* one is taken.
SpecChunkerFair == ChunkerInit /\ [][ChunkerNext]_vars /\ WF_vars(ChunkerNext)

\* C21: the Chunker terminates: each window starts strictly after the one
\* before it, and the loop reaches the text end and stops.
C21_ChunkerTerminates ==
    /\ [][windowStart' # windowStart => windowStart' > windowStart]_vars
    /\ [][chunks' # chunks => windowStart' > windowStart]_vars
    /\ <>(chunkerPc = "done" /\ windowStart >= Len(document_text))

\* The loop went round several times with overlapping windows, and stopped.
C21_Witness ==
    /\ chunkerPc = "done"
    /\ overlap_chars > 0
    /\ Len(chunks) >= 2

\* ====================================================================
\* The Ingestion Driver: build_index(knowledge_base_dir, max_chars,
\* overlap_chars), one pass over the documents of the knowledge base.
\* ====================================================================

\* Most documents of one knowledge base.
MaxDocs == 3

\* The lengths of the documents that can be read.
DocLengths == {0, 1, MaxLen}

\* A document of the knowledge base: one that cannot be read, or a text.
KBDocuments ==
    {[readable |-> FALSE, length |-> 0]} \cup
    {[readable |-> TRUE, length |-> n] : n \in DocLengths}

KnowledgeBases == UNION {[1..n -> KBDocuments] : n \in 0..MaxDocs}

\* The number of chunks the Chunker makes of a text of the given length: the
\* windows from start on that start before the text end.
RECURSIVE ChunkCount(_, _, _, _)
ChunkCount(start, length, max, overlap) ==
    IF start >= length THEN 0
    ELSE 1 + ChunkCount(start + Stride(max, overlap), length, max, overlap)

\* Whether build_index fails fast: the directory is unreadable or empty.
FailsFast_OnAnyUnreadable(readable, documents) ==
    \/ ~readable
    \/ documents = <<>>
    \/ \E n \in DOMAIN documents : ~documents[n].readable

FailsFast(readable, documents) ==
    \/ ~readable
    \/ documents = <<>>

\* What the skipped count becomes when a document is skipped.
SkipCount_NotCounted(n) == n

SkipCount(n) == n + 1

IngestionInit ==
    /\ iReadable \in BOOLEAN
    /\ iDocuments \in KnowledgeBases
    /\ \E p \in ChunkParams :
          /\ iMaxChars = p.max_chars
          /\ iOverlapChars = p.overlap_chars
    /\ iNext = 0
    /\ documents_processed = 0
    /\ skipped = 0
    /\ chunks_created = 0
    /\ index_entries = 0
    /\ iError = "none"
    /\ iPc = "start"
    /\ RetrieverIdle
    /\ ConcurrentIdle
    /\ ToolIdle
    /\ DisplayIdle
    /\ ChunkerIdle
    /\ StorageIdle
    /\ ActiveIdle
    /\ ProxyIdle

\* build_index enumerates the documents; an empty or unreadable knowledge
\* base fails the run at once with IngestionError.
build_index ==
    /\ iPc = "start"
    /\ IF FailsFast(iReadable, iDocuments)
       THEN /\ iPc' = "failed"
            /\ iError' = "IngestionError"
       ELSE /\ iPc' = "documents"
            /\ UNCHANGED iError
    /\ UNCHANGED <<iReadable, iDocuments, iMaxChars, iOverlapChars, iNext,
                   documents_processed, skipped, chunks_created, index_entries>>
    /\ UNCHANGED notIngestion

\* The next document is read and chunked.
ProcessDocument ==
    /\ iPc = "documents"
    /\ iNext < Len(iDocuments)
    /\ iDocuments[iNext + 1].readable
    /\ iNext' = iNext + 1
    /\ documents_processed' = documents_processed + 1
    /\ chunks_created' =
          chunks_created + ChunkCount(0, iDocuments[iNext + 1].length, iMaxChars, iOverlapChars)
    /\ UNCHANGED <<iReadable, iDocuments, iMaxChars, iOverlapChars, skipped,
                   index_entries, iError, iPc>>
    /\ UNCHANGED notIngestion

\* The next document cannot be read: it is logged and skipped.
SkipDocument ==
    /\ iPc = "documents"
    /\ iNext < Len(iDocuments)
    /\ ~iDocuments[iNext + 1].readable
    /\ iNext' = iNext + 1
    /\ skipped' = SkipCount(skipped)
    /\ UNCHANGED <<iReadable, iDocuments, iMaxChars, iOverlapChars,
                   documents_processed, chunks_created, index_entries, iError, iPc>>
    /\ UNCHANGED notIngestion

\* All documents handled: the chunks are embedded and the index is built in
\* one bulk operation; the run succeeds with its build report.
BuildIndex ==
    /\ iPc = "documents"
    /\ iNext = Len(iDocuments)
    /\ index_entries' = chunks_created
    /\ iPc' = "succeeded"
    /\ UNCHANGED <<iReadable, iDocuments, iMaxChars, iOverlapChars, iNext,
                   documents_processed, skipped, chunks_created, iError>>
    /\ UNCHANGED notIngestion

\* The Embedder or the Vector Index fails: the error is surfaced.
IngestionBackendFails ==
    /\ iPc = "documents"
    /\ iNext = Len(iDocuments)
    /\ \E error \in {"EmbeddingBackendError", "IndexBuildError"} : iError' = error
    /\ iPc' = "failed"
    /\ UNCHANGED <<iReadable, iDocuments, iMaxChars, iOverlapChars, iNext,
                   documents_processed, skipped, chunks_created, index_entries>>
    /\ UNCHANGED notIngestion

IngestionNext ==
    \/ build_index
    \/ ProcessDocument
    \/ SkipDocument
    \/ BuildIndex
    \/ IngestionBackendFails

SpecIngestion == IngestionInit /\ [][IngestionNext]_vars

Unreadable == {n \in DOMAIN iDocuments : ~iDocuments[n].readable}

\* C22: an unreadable document never fails the run: it is skipped and
\* counted, the others are processed, and the report of a run that succeeds
\* has documents_processed + skipped = the number of documents enumerated;
\* the run fails over the knowledge base (IngestionError) only when the
\* knowledge base is empty or unreadable as a whole.
C22_UnreadableDocumentsAreSkipped ==
    /\ iPc \in {"documents", "succeeded"} =>
          /\ documents_processed + skipped = iNext
          /\ skipped = Cardinality({n \in Unreadable : n <= iNext})
    /\ iPc = "succeeded" =>
          /\ documents_processed + skipped = Len(iDocuments)
          /\ skipped = Cardinality(Unreadable)
          /\ documents_processed = Len(iDocuments) - Cardinality(Unreadable)
    /\ iError = "IngestionError" => (~iReadable \/ iDocuments = <<>>)
    /\ (iPc = "failed" /\ iReadable /\ iDocuments # <<>>) =>
          /\ iError \in {"EmbeddingBackendError", "IndexBuildError"}
          /\ iNext = Len(iDocuments)

\* Scenario D: one unreadable file and two valid files; the run succeeded
\* with documents_processed = 2 and skipped = 1.
C22_Witness ==
    /\ iPc = "succeeded"
    /\ Len(iDocuments) = 3
    /\ Cardinality(Unreadable) = 1
    /\ documents_processed = 2
    /\ skipped = 1

\* ====================================================================
\* The Retriever again (specification Spec): rows without a distance.
\* ====================================================================

\* The returned list is in descending order of score.
Descending ==
    \A i, j \in DOMAIN outcome.results :
        i < j => ScoreGE(outcome.results[i].score, outcome.results[j].score)

\* The index rows that carry no distance.
RowsWithoutDist == {j \in DOMAIN indexResponse.rows : indexResponse.rows[j].dist = Absent}

\* The result made from row j is in the returned list, with score 1.
ReturnedWithScoreOne(j) ==
    \E n \in DOMAIN outcome.results :
        /\ outcome.results[n].id = j
        /\ outcome.results[n].score.num = outcome.results[n].score.den

\* C23 (as stated): a row without distance is scored 1 and passes every
\* min_score <= 1; and whenever such a row follows a row with a positive
\* distance, the returned list is not in descending score order.
C23_RowAfterAnyPositiveDistance ==
    Returned =>
        \A j \in RowsWithoutDist :
            /\ minScore <= Scale => ReturnedWithScoreOne(j)
            /\ (\E i \in 1..(j - 1) : indexResponse.rows[i].dist > 0) => ~Descending

\* C23 (amended): a row without distance is scored 1 and passes every
\* min_score <= 1; and whenever such a row follows a row that is returned
\* with a score below 1, the returned list is not in descending score order.
C23_RowWithoutDistScoresOne ==
    Returned =>
        \A j \in RowsWithoutDist :
            /\ minScore <= Scale => ReturnedWithScoreOne(j)
            /\ (\E n \in DOMAIN outcome.results :
                    /\ outcome.results[n].id < j
                    /\ outcome.results[n].score.num < outcome.results[n].score.den)
               => ~Descending

\* A row without distance was returned after a row with a positive distance.
C23_Witness ==
    /\ Returned
    /\ \E j \in RowsWithoutDist :
          /\ ReturnedWithScoreOne(j)
          /\ \E n \in DOMAIN outcome.results :
                /\ outcome.results[n].id < j
                /\ indexResponse.rows[outcome.results[n].id].dist > 0
    /\ ~Descending

\* ====================================================================
\* The conversation store: useChatStorage (src/app/(tabs)/explore.tsx:661-842).
\* A call captures the conversations and currentConversationId of the render
\* its callback was made in; an await splits it into steps, between which
\* other calls run.  An AsyncStorage write takes effect, or is rejected, when
\* it is issued; the code after its await runs in a later step.
\* ====================================================================

\* Most calls in progress at once, most calls started, and the last clock value.
MaxInFlight == 2

MaxCallsStarted == 3

MaxNow == 2

Callers == 1..MaxInFlight

\* The messages of a chat: none, a question, a question and its answer.
MessageLists == {<<>>, <<"q">>, <<"q", "a">>}

NoCall ==
    [op |-> "none", pc |-> "free", conversations |-> <<>>, currentConversationId |-> NoId,
     newId |-> NoId, list |-> <<>>, target |-> NoId, ok |-> TRUE]

\* A ChatConversation: its id and its messages (title, createdAt and updatedAt
\* are derived from the messages and the clock and decide nothing here).
ChatConversation(id, messages) == [id |-> id, messages |-> messages]

Ids(list) == {list[n].id : n \in DOMAIN list}

\* conversations.filter(conv => conv.id !== conversationId)
WithoutId(list, id) == SelectSeq(list, LAMBDA conv : conv.id # id)

\* prev.map(conv => conv.id === currentConversationId ? {...conv, messages} : conv)
WithMessages(list, id, messages) ==
    [n \in DOMAIN list |->
        IF list[n].id = id THEN ChatConversation(id, messages) ELSE list[n]]

StorageInit ==
    /\ conversations = <<>>
    /\ currentConversationId = NoId
    /\ storedConversations = <<>>
    /\ storedCurrentId = NoId
    /\ now = 1
    /\ calls = [c \in Callers |-> NoCall]
    /\ callsStarted = 0
    /\ writeFailed = FALSE
    /\ savedUnderway = <<>>
    /\ savesOnly = TRUE
    /\ RetrieverIdle
    /\ ConcurrentIdle
    /\ ToolIdle
    /\ DisplayIdle
    /\ ChunkerIdle
    /\ IngestionIdle
    /\ ActiveIdle
    /\ ProxyIdle

\* A call may start in slot c: the slot is the first free one.
MayStart(c) ==
    /\ callsStarted < MaxCallsStarted
    /\ calls[c].pc = "free"
    /\ \A d \in Callers : d < c => calls[d].pc # "free"

\* The frame of a call that starts now: what its closure captured.
NewCall(op) ==
    [NoCall EXCEPT !.op = op,
                   !.conversations = conversations,
                   !.currentConversationId = currentConversationId]

\* The millisecond clock advances.
Tick ==
    /\ now < MaxNow
    /\ now' = now + 1
    /\ UNCHANGED <<conversations, currentConversationId, storedConversations,
                   storedCurrentId, calls, callsStarted, writeFailed, savedUnderway,
                   savesOnly>>
    /\ UNCHANGED notStorage

\* createNewConversation() up to the await in saveConversations
\* (explore.tsx:710-721, 702): the new list is made from the captured list and
\* AsyncStorage.setItem(CONVERSATIONS) is issued.
createNewConversation(c) ==
    /\ MayStart(c)
    /\ \E ok \in BOOLEAN :
         LET newConversations == <<ChatConversation(now, <<>>)>> \o conversations
         IN  /\ calls' = [calls EXCEPT ![c] =
                    [NewCall("createNewConversation") EXCEPT
                        !.pc = "saveConversations", !.newId = now,
                        !.list = newConversations, !.ok = ok]]
             /\ storedConversations' = IF ok THEN newConversations ELSE storedConversations
             /\ writeFailed' = (writeFailed \/ ~ok)
    /\ callsStarted' = callsStarted + 1
    /\ savesOnly' = FALSE
    /\ UNCHANGED <<conversations, currentConversationId, storedCurrentId, now, savedUnderway>>
    /\ UNCHANGED notStorage

\* deleteConversation(conversationId) up to the await in saveConversations
\* (explore.tsx:803-805, 702); the id is one of the list shown.
deleteConversation(c, conversationId) ==
    /\ MayStart(c)
    /\ conversationId \in Ids(conversations)
    /\ \E ok \in BOOLEAN :
         LET updatedConversations == WithoutId(conversations, conversationId)
         IN  /\ calls' = [calls EXCEPT ![c] =
                    [NewCall("deleteConversation") EXCEPT
                        !.pc = "saveConversations", !.target = conversationId,
                        !.list = updatedConversations, !.ok = ok]]
             /\ storedConversations' = IF ok THEN updatedConversations ELSE storedConversations
             /\ writeFailed' = (writeFailed \/ ~ok)
    /\ callsStarted' = callsStarted + 1
    /\ savesOnly' = FALSE
    /\ savedUnderway' =
          IF savedUnderway # <<>> /\ savedUnderway[1].id = conversationId
          THEN <<>> ELSE savedUnderway
    /\ UNCHANGED <<conversations, currentConversationId, storedCurrentId, now>>
    /\ UNCHANGED notStorage

\* The code after the await in saveConversations (explore.tsx:703-706), and
\* what its caller does next: createNewConversation issues
\* AsyncStorage.setItem(CURRENT_CONVERSATION_ID) (explore.tsx:725);
\* deleteConversation, if it captured the deleted id as current, calls
\* setCurrentConversation(null), which issues removeItem (explore.tsx:808-810, 794).
saveConversationsResolves(c) ==
    /\ calls[c].pc = "saveConversations"
    /\ conversations' = IF calls[c].ok THEN calls[c].list ELSE conversations
    /\ IF calls[c].op = "createNewConversation"
       THEN \E ok \in BOOLEAN :
              /\ calls' = [calls EXCEPT ![c].pc = "setCurrent",
                                        ![c].target = calls[c].newId, ![c].ok = ok]
              /\ storedCurrentId' = IF ok THEN calls[c].newId ELSE storedCurrentId
              /\ writeFailed' = (writeFailed \/ ~ok)
       ELSE IF calls[c].currentConversationId = calls[c].target
       THEN \E ok \in BOOLEAN :
              /\ calls' = [calls EXCEPT ![c].pc = "setCurrent",
                                        ![c].target = NoId, ![c].ok = ok]
              /\ storedCurrentId' = IF ok THEN NoId ELSE storedCurrentId
              /\ writeFailed' = (writeFailed \/ ~ok)
       ELSE /\ calls' = [calls EXCEPT ![c] = NoCall]
            /\ UNCHANGED <<storedCurrentId, writeFailed>>
    /\ UNCHANGED <<currentConversationId, storedConversations, now, callsStarted,
                   savedUnderway, savesOnly>>
    /\ UNCHANGED notStorage

\* The code after the await of the write of CURRENT_CONVERSATION_ID:
\* setCurrentConversationId, unless the write was rejected
\* (explore.tsx:726, 756, 796).
setCurrentResolves(c) ==
    /\ calls[c].pc = "setCurrent"
    /\ currentConversationId' = IF calls[c].ok THEN calls[c].target ELSE currentConversationId
    /\ calls' = [calls EXCEPT ![c] = NoCall]
    /\ UNCHANGED <<conversations, storedConversations, storedCurrentId, now,
                   callsStarted, writeFailed, savedUnderway, savesOnly>>
    /\ UNCHANGED notStorage

\* A create or delete call is in progress, and no call in progress removes the
\* conversation id: what saveCurrentConversation writes to it now should last.
Underway(id) ==
    /\ \E d \in Callers : calls[d].op \in {"createNewConversation", "deleteConversation"}
    /\ \A d \in Callers :
          /\ calls[d].op # "clearAllConversations"
          /\ calls[d].op = "deleteConversation" => calls[d].target # id

\* What the history records for a save of messages to the conversation id.
NoteSave(id, messages) ==
    IF Underway(id) THEN <<ChatConversation(id, messages)>>
    ELSE IF savedUnderway # <<>> /\ savedUnderway[1].id = id THEN <<>>
    ELSE savedUnderway

\* saveCurrentConversation(messages) (explore.tsx:735-780).  Without a current
\* conversation it makes a new one, if there are messages, up to the await of
\* the write of CURRENT_CONVERSATION_ID; with one, it replaces the messages of
\* the conversation with that id.  The updater works on the latest list, and
\* the rejection of its write is only logged.
saveCurrentConversation(c, messages) ==
    /\ MayStart(c)
    /\ callsStarted' = callsStarted + 1
    /\ IF currentConversationId = NoId
       THEN IF messages # <<>>
            THEN \E written, ok \in BOOLEAN :
                   LET newConversations == <<ChatConversation(now, messages)>> \o conversations
                   IN  /\ conversations' = newConversations
                       /\ storedConversations' =
                              IF written THEN newConversations ELSE storedConversations
                       /\ storedCurrentId' = IF ok THEN now ELSE storedCurrentId
                       /\ writeFailed' = (writeFailed \/ ~written \/ ~ok)
                       /\ calls' = [calls EXCEPT ![c] =
                              [NewCall("saveCurrentConversation") EXCEPT
                                  !.pc = "setCurrent", !.newId = now,
                                  !.target = now, !.ok = ok]]
                       /\ savedUnderway' = NoteSave(now, messages)
            ELSE UNCHANGED <<conversations, storedConversations, storedCurrentId,
                             writeFailed, calls, savedUnderway>>
       ELSE \E written \in BOOLEAN :
              LET updatedConversations ==
                      WithMessages(conversations, currentConversationId, messages)
              IN  /\ conversations' = updatedConversations
                  /\ storedConversations' =
                         IF written THEN updatedConversations ELSE storedConversations
                  /\ writeFailed' = (writeFailed \/ ~written)
                  /\ savedUnderway' =
                         IF currentConversationId \in Ids(conversations)
                         THEN NoteSave(currentConversationId, messages)
                         ELSE savedUnderway
                  /\ UNCHANGED <<storedCurrentId, calls>>
    /\ UNCHANGED <<currentConversationId, now, savesOnly>>
    /\ UNCHANGED notStorage

\* setCurrentConversation(conversationId) up to its await (explore.tsx:789-793),
\* called with the id of a conversation of the list shown (index.tsx:344-346).
setCurrentConversation(c, conversationId) ==
    /\ MayStart(c)
    /\ conversationId \in Ids(conversations)
    /\ \E ok \in BOOLEAN :
         /\ calls' = [calls EXCEPT ![c] =
                [NewCall("setCurrentConversation") EXCEPT
                    !.pc = "setCurrent", !.target = conversationId, !.ok = ok]]
         /\ storedCurrentId' = IF ok THEN conversationId ELSE storedCurrentId
         /\ writeFailed' = (writeFailed \/ ~ok)
    /\ callsStarted' = callsStarted + 1
    /\ savesOnly' = FALSE
    /\ UNCHANGED <<conversations, currentConversationId, storedConversations, now,
                   savedUnderway>>
    /\ UNCHANGED notStorage

\* clearAllConversations() up to its first await (explore.tsx:814-816).
clearAllConversations(c) ==
    /\ MayStart(c)
    /\ \E ok \in BOOLEAN :
         /\ calls' = [calls EXCEPT ![c] =
                [NewCall("clearAllConversations") EXCEPT
                    !.pc = "clearConversations", !.ok = ok]]
         /\ storedConversations' = IF ok THEN <<>> ELSE storedConversations
         /\ writeFailed' = (writeFailed \/ ~ok)
    /\ callsStarted' = callsStarted + 1
    /\ savesOnly' = FALSE
    /\ savedUnderway' = <<>>
    /\ UNCHANGED <<conversations, currentConversationId, storedCurrentId, now>>
    /\ UNCHANGED notStorage

\* After the first removeItem of clearAllConversations: the catch, if it was
\* rejected; else the second removeItem is issued (explore.tsx:817, 820-822).
clearConversationsResolves(c) ==
    /\ calls[c].pc = "clearConversations"
    /\ IF calls[c].ok
       THEN \E ok \in BOOLEAN :
              /\ calls' = [calls EXCEPT ![c].pc = "clearCurrent", ![c].ok = ok]
              /\ storedCurrentId' = IF ok THEN NoId ELSE storedCurrentId
              /\ writeFailed' = (writeFailed \/ ~ok)
       ELSE /\ calls' = [calls EXCEPT ![c] = NoCall]
            /\ UNCHANGED <<storedCurrentId, writeFailed>>
    /\ UNCHANGED <<conversations, currentConversationId, storedConversations, now,
                   callsStarted, savedUnderway, savesOnly>>
    /\ UNCHANGED notStorage

\* After the second removeItem: setConversations([]) and
\* setCurrentConversationId(null), unless it was rejected (explore.tsx:818-822).
clearCurrentResolves(c) ==
    /\ calls[c].pc = "clearCurrent"
    /\ conversations' = IF calls[c].ok THEN <<>> ELSE conversations
    /\ currentConversationId' = IF calls[c].ok THEN NoId ELSE currentConversationId
    /\ calls' = [calls EXCEPT ![c] = NoCall]
    /\ UNCHANGED <<storedConversations, storedCurrentId, now, callsStarted,
                   writeFailed, savedUnderway, savesOnly>>
    /\ UNCHANGED notStorage

StorageNext ==
    \/ Tick
    \/ \E c \in Callers : createNewConversation(c)
    \/ \E c \in Callers : \E id \in 1..MaxNow : deleteConversation(c, id)
    \/ \E c \in Callers : saveConversationsResolves(c)
    \/ \E c \in Callers : setCurrentResolves(c)
    \/ \E c \in Callers : \E messages \in MessageLists : saveCurrentConversation(c, messages)
    \/ \E c \in Callers : \E id \in 1..MaxNow : setCurrentConversation(c, id)
    \/ \E c \in Callers : clearAllConversations(c)
    \/ \E c \in Callers : clearConversationsResolves(c)
    \/ \E c \in Callers : clearCurrentResolves(c)

SpecStorage == StorageInit /\ [][StorageNext]_vars

\* Every call of the hook's functions has completed.
AllCompleted == \A c \in Callers : calls[c].pc = "free"

\* The list holds a conversation with this id and these messages.
Holds(list, conversation) == \E n \in DOMAIN list : list[n] = conversation

\* C24 (as stated): no update to the conversation list is lost under
\* interleaving: what saveCurrentConversation wrote while a
\* createNewConversation or deleteConversation call was in progress is still
\* in the list, and in the persisted list, once every call has completed
\* (no storage write having been rejected).
C24_NoLostUpdate ==
    (AllCompleted /\ ~writeFailed /\ savedUnderway # <<>>) =>
        /\ Holds(conversations, savedUnderway[1])
        /\ Holds(storedConversations, savedUnderway[1])

\* C25 (as stated): starting with no current conversation, a chat whose
\* messages are saved several times in a row produces exactly one new
\* conversation.
C25_OneConversationPerChat ==
    (savesOnly /\ callsStarted > 0 /\ ~writeFailed) => Len(conversations) <= 1

\* C26 (as stated): once every call has completed, the persisted conversation
\* list equals the in-memory list, also when a storage write was rejected.
C26_PersistedEqualsInMemory ==
    AllCompleted => storedConversations = conversations

\* C27 (as stated): after any createNewConversation and
\* saveCurrentConversation calls, the conversations of the list have pairwise
\* distinct ids.
C27_DistinctIds ==
    \A i, j \in DOMAIN conversations :
        i # j => conversations[i].id # conversations[j].id

\* C28 (as stated): once every call has completed, currentConversationId is
\* null or the id of a conversation of the list.
C28_CurrentIsNullOrListed ==
    AllCompleted =>
        (currentConversationId = NoId \/ currentConversationId \in Ids(conversations))

\* ====================================================================
\* The active tool-call list: onToolCall of the chat screen
\* (src/app/(tabs)/index.tsx:117-237, src/unnamed/part_005:122-167).  The chat
\* library may invoke onToolCall while an earlier invocation awaits its tool.
\* ====================================================================

\* A tool that returns before any await, and tools that are awaited.
ToolNames == {"getLocation", "makeRAGQuery", "getStepCount"}

Awaited(toolName) == toolName # "getLocation"

\* A slot without a running invocation; result is how its last one ended.
NoToolCall == [toolName |-> "none", startTime |-> 0, running |-> FALSE, result |-> "none"]

ActiveEntry(toolName, startTime) == [toolName |-> toolName, startTime |-> startTime]

\* prev.filter(call => !(call.toolName === toolCall.toolName &&
\*                       call.startTime === startTime))
WithoutCall(list, toolName, startTime) ==
    SelectSeq(list, LAMBDA call : ~(call.toolName = toolName /\ call.startTime = startTime))

ActiveInit ==
    /\ activeToolCalls = <<>>
    /\ toolNow = 1
    /\ toolCalls = [c \in Callers |-> NoToolCall]
    /\ toolCallsStarted = 0
    /\ RetrieverIdle
    /\ ConcurrentIdle
    /\ ToolIdle
    /\ DisplayIdle
    /\ ChunkerIdle
    /\ IngestionIdle
    /\ StorageIdle
    /\ ProxyIdle

\* The millisecond clock of the chat screen advances.
ToolTick ==
    /\ toolNow < MaxNow
    /\ toolNow' = toolNow + 1
    /\ UNCHANGED <<activeToolCalls, toolCalls, toolCallsStarted>>
    /\ UNCHANGED notActive

\* onToolCall({ toolCall }) up to its first await: the entry is appended; a
\* tool that needs no await returns at once and the finally block removes the
\* entry again (index.tsx:117-126, 231-236).
onToolCallStarts(c, toolName) ==
    /\ toolCallsStarted < MaxCallsStarted
    /\ ~toolCalls[c].running
    /\ \A d \in Callers : d < c => toolCalls[d].running
    /\ toolCallsStarted' = toolCallsStarted + 1
    /\ LET appended == Append(activeToolCalls, ActiveEntry(toolName, toolNow))
       IN  IF Awaited(toolName)
           THEN /\ activeToolCalls' = appended
                /\ toolCalls' = [toolCalls EXCEPT ![c] =
                       [toolName |-> toolName, startTime |-> toolNow, running |-> TRUE,
                        result |-> "none"]]
           ELSE /\ activeToolCalls' = WithoutCall(appended, toolName, toolNow)
                /\ toolCalls' = [toolCalls EXCEPT ![c].result = "returned"]
    /\ UNCHANGED toolNow
    /\ UNCHANGED notActive

\* The awaited tool resolves and onToolCall returns its result; the finally
\* block removes the entry (index.tsx:154-162, 196-222, 231-236).
onToolCallReturns(c) ==
    /\ toolCalls[c].running
    /\ activeToolCalls' =
          WithoutCall(activeToolCalls, toolCalls[c].toolName, toolCalls[c].startTime)
    /\ toolCalls' = [toolCalls EXCEPT ![c] = [NoToolCall EXCEPT !.result = "returned"]]
    /\ UNCHANGED <<toolNow, toolCallsStarted>>
    /\ UNCHANGED notActive

\* The awaited tool rejects: the catch block returns an error result
\* (index.tsx:223-230; part_005 has no catch and the error leaves onToolCall);
\* the finally block removes the entry either way.
onToolCallThrows(c) ==
    /\ toolCalls[c].running
    /\ activeToolCalls' =
          WithoutCall(activeToolCalls, toolCalls[c].toolName, toolCalls[c].startTime)
    /\ toolCalls' = [toolCalls EXCEPT ![c] = [NoToolCall EXCEPT !.result = "failed"]]
    /\ UNCHANGED <<toolNow, toolCallsStarted>>
    /\ UNCHANGED notActive

ActiveNext ==
    \/ ToolTick
    \/ \E c \in Callers : \E toolName \in ToolNames : onToolCallStarts(c, toolName)
    \/ \E c \in Callers : onToolCallReturns(c)
    \/ \E c \in Callers : onToolCallThrows(c)

SpecActive == ActiveInit /\ [][ActiveNext]_vars

\* How many invocations in progress, and how many entries of the list, carry
\* this tool name and start time.
InFlight(entry) ==
    Cardinality({c \in Callers :
        /\ toolCalls[c].running
        /\ toolCalls[c].toolName = entry.toolName
        /\ toolCalls[c].startTime = entry.startTime})

Listed(entry) ==
    Cardinality({n \in DOMAIN activeToolCalls : activeToolCalls[n] = entry})

\* C29 (as stated): the active tool-call list equals the tool calls in
\* flight: one entry for each call that is running and none for any other,
\* so the list is empty once all calls have finished.
C29_ActiveListIsCallsInFlight ==
    /\ \A toolName \in ToolNames : \A startTime \in 1..MaxNow :
          Listed(ActiveEntry(toolName, startTime)) = InFlight(ActiveEntry(toolName, startTime))
    /\ (\A c \in Callers : ~toolCalls[c].running) => activeToolCalls = <<>>

\* ====================================================================
\* The chat proxy: POST of src/app/api/chat+api.ts (lines 95-187).
\* ====================================================================

\* `prompt.length > 1000` and `top_k: 3` (chat+api.ts:122, 144).
PromptLimit == 1000

ProxyTopK == 3

\* Most messages of one chat request.
MaxMessages == 2

\* The content of a message: missing, or a string of some length.
Contents ==
    {[present |-> FALSE, length |-> 0]} \cup
    {[present |-> TRUE, length |-> n] : n \in {0, 1, PromptLimit, PromptLimit + 1}}

\* The bodies of a chat request: not JSON, the JSON null, an object without
\* messages, an object with a list of messages.
ProxyBodies ==
    {[json |-> j, messages |-> <<>>] : j \in {"malformed", "null", "noMessages"}} \cup
    {[json |-> "object", messages |-> ms] :
        ms \in UNION {[1..n -> Contents] : n \in 0..MaxMessages}}

\* The statuses the RAG API answers with when it fails.
RagErrorStatuses == {400, 422, 500}

\* What fetch resolves to: an OK response or a failure status, and what its
\* body holds.
RagResponses ==
    {[kind |-> "response", status |-> 200, body |-> b] : b \in {"answer", "null", "notJson"}} \cup
    {[kind |-> "response", status |-> st, body |-> b] :
        st \in RagErrorStatuses, b \in {"jsonDetail", "jsonError", "text"}}

NoRagResponse == [kind |-> "none", status |-> 0, body |-> "none"]

NoProxyResponse == [status |-> 0, error |-> "none", text |-> "none", retrieved_chunks |-> "none"]

\* messages && messages.length > 0 ? messages[messages.length - 1].content : ''
\* is truthy (chat+api.ts:108, 110).
HasUserQuery(body) ==
    /\ body.json = "object"
    /\ Len(body.messages) > 0
    /\ body.messages[Len(body.messages)].present
    /\ body.messages[Len(body.messages)].length > 0

\* The prompt, cut to 1000 characters (chat+api.ts:118-125).
Truncated(length) == IF length > PromptLimit THEN PromptLimit ELSE length

ProxyError(status, error) ==
    [status |-> status, error |-> error, text |-> "none", retrieved_chunks |-> "none"]

\* The status of the response to a RAG response that is not OK.
RelayedStatus_AlwaysBadGateway(status) == 502

RelayedStatus(status) == status

ProxyInit ==
    /\ proxyRequest \in ProxyBodies
    /\ proxyPc = "start"
    /\ prompt = 0
    /\ ragCalls = 0
    /\ ragRequest = [query |-> 0, top_k |-> 0]
    /\ ragResponse = NoRagResponse
    /\ proxyResponse = NoProxyResponse
    /\ RetrieverIdle
    /\ ConcurrentIdle
    /\ ToolIdle
    /\ DisplayIdle
    /\ ChunkerIdle
    /\ IngestionIdle
    /\ StorageIdle
    /\ ActiveIdle

\* POST up to the await of fetch (chat+api.ts:95-145): the body is parsed;
\* without a user query, or without JSON, the answer is 400; else the RAG API
\* is called.
ProxyPOST ==
    /\ proxyPc = "start"
    /\ IF proxyRequest.json \in {"malformed", "null"}
       THEN /\ proxyResponse' = ProxyError(400, "Invalid JSON in request body")
            /\ proxyPc' = "done"
            /\ UNCHANGED <<prompt, ragCalls, ragRequest>>
       ELSE IF ~HasUserQuery(proxyRequest)
       THEN /\ proxyResponse' = ProxyError(400, "No message found in request")
            /\ proxyPc' = "done"
            /\ UNCHANGED <<prompt, ragCalls, ragRequest>>
       ELSE LET userQuery == proxyRequest.messages[Len(proxyRequest.messages)]
            IN  /\ prompt' = Truncated(userQuery.length)
                /\ ragCalls' = ragCalls + 1
                /\ ragRequest' = [query |-> Truncated(userQuery.length), top_k |-> ProxyTopK]
                /\ proxyPc' = "fetch"
                /\ UNCHANGED proxyResponse
    /\ UNCHANGED <<proxyRequest, ragResponse>>
    /\ UNCHANGED notProxy

\* A rejection inside the try around the call: the catch answers 502
\* (chat+api.ts:179-187).
BadGateway ==
    /\ proxyResponse' = ProxyError(502, "Failed to connect to RAG API")
    /\ proxyPc' = "done"

\* fetch rejects: the RAG API cannot be reached.
ragFetchRejects ==
    /\ proxyPc = "fetch"
    /\ ragResponse' = [kind |-> "networkError", status |-> 0, body |-> "none"]
    /\ BadGateway
    /\ UNCHANGED <<proxyRequest, prompt, ragCalls, ragRequest>>
    /\ UNCHANGED notProxy

\* fetch resolves; the body is then read as text, if the response is not OK,
\* or as JSON (chat+api.ts:147-151, 166).
ragFetchResolves ==
    /\ proxyPc = "fetch"
    /\ \E resp \in RagResponses :
          /\ ragResponse' = resp
          /\ proxyPc' = IF resp.status = 200 THEN "json" ELSE "text"
    /\ UNCHANGED <<proxyRequest, prompt, ragCalls, ragRequest, proxyResponse>>
    /\ UNCHANGED notProxy

\* ragApiResponse.text() resolves: the error is relayed with the status of the
\* RAG API (chat+api.ts:151-163).
ragTextResolves ==
    /\ proxyPc = "text"
    /\ proxyResponse' =
          ProxyError(RelayedStatus(ragResponse.status),
                     IF ragResponse.body = "jsonDetail" THEN "RAG API error: detail"
                     ELSE IF ragResponse.body = "jsonError" THEN "RAG API error: error"
                     ELSE "RAG API error: status and text")
    /\ proxyPc' = "done"
    /\ UNCHANGED <<proxyRequest, prompt, ragCalls, ragRequest, ragResponse>>
    /\ UNCHANGED notProxy

\* Reading the body fails (the connection breaks while it is read, or the
\* body of an OK response is not JSON), or the body is the JSON null and
\* ragData.answer throws.
ragBodyRejects ==
    /\ proxyPc \in {"text", "json"}
    /\ ragResponse' =
          IF proxyPc = "json" /\ ragResponse.body \in {"null", "notJson"}
          THEN ragResponse
          ELSE [ragResponse EXCEPT !.kind = "broken"]
    /\ BadGateway
    /\ UNCHANGED <<proxyRequest, prompt, ragCalls, ragRequest>>
    /\ UNCHANGED notProxy

\* ragApiResponse.json() resolves with the answer and the chunks: they are
\* passed on with status 200 (chat+api.ts:166-177).
ragJsonResolves ==
    /\ proxyPc = "json"
    /\ ragResponse.body = "answer"
    /\ proxyResponse' =
          [status |-> 200, error |-> "none", text |-> "answer",
           retrieved_chunks |-> "retrieved_chunks"]
    /\ proxyPc' = "done"
    /\ UNCHANGED <<proxyRequest, prompt, ragCalls, ragRequest, ragResponse>>
    /\ UNCHANGED notProxy

ProxyNext ==
    \/ ProxyPOST
    \/ ragFetchRejects
    \/ ragFetchResolves
    \/ ragTextResolves
    \/ ragBodyRejects
    \/ ragJsonResolves

SpecProxy == ProxyInit /\ [][ProxyNext]_vars

\* The handler has returned its Response.
ProxyDone == proxyPc = "done"

\* The request is one the handler refuses: not JSON, or no last message with
\* a content that is not empty.
ProxyBadInput == ~HasUserQuery(proxyRequest)

\* C30: the handler relays the outcome of its single call of the RAG API: an
\* OK response whose body is read (answer and chunks) gives 200 with the
\* answer text and retrieved_chunks; a response that is not OK, its body
\* read, gives an error payload with the status of the RAG API; a network
\* failure (fetch rejects, or the connection breaks while the body is read)
\* gives 502; a missing or empty last message or malformed JSON gives 400
\* without any call; and the RAG API is called at most once.
C30_ProxyRelaysOutcome ==
    /\ ragCalls <= 1
    /\ ProxyBadInput => ragCalls = 0
    /\ ProxyDone =>
        /\ ProxyBadInput =>
              /\ proxyResponse.status = 400
              /\ proxyResponse.error # "none"
        /\ ~ProxyBadInput =>
              /\ ragCalls = 1
              /\ ragRequest = [query |-> prompt, top_k |-> ProxyTopK]
        /\ (ragResponse.kind = "response" /\ ragResponse.status = 200
                /\ ragResponse.body = "answer") =>
              /\ proxyResponse.status = 200
              /\ proxyResponse.error = "none"
              /\ proxyResponse.text = "answer"
              /\ proxyResponse.retrieved_chunks = "retrieved_chunks"
        /\ (ragResponse.kind = "response" /\ ragResponse.status # 200) =>
              /\ proxyResponse.status = ragResponse.status
              /\ proxyResponse.error # "none"
              /\ proxyResponse.text = "none"
        /\ ragResponse.kind \in {"networkError", "broken"} =>
              /\ proxyResponse.status = 502
              /\ proxyResponse.error # "none"

\* A request went through and the RAG API refused it: its status came back.
C30_Witness ==
    /\ ProxyDone
    /\ ragCalls = 1
    /\ ragResponse.kind = "response"
    /\ ragResponse.status = 422
    /\ proxyResponse.status = 422

====
